---- MODULE Spec2Model ----
(***************************************************************************)
(* Caching layers, query optimizer and graph construction of the dashboard *)
(* backend.                                                                *)
(*                                                                         *)
(*   Spec     CosmosCache (app/services/cache.py): set / get / invalidate  *)
(*            against a wall clock.                                        *)
(*   SpecApi  the Cosmos endpoints (app/api/v1/endpoints/cosmos.py) with   *)
(*            their Redis cache, the in-process CosmosCache and the two    *)
(*            clear_cache handlers.                                        *)
(*   SpecOpt  optimize_query (app/core/cosmos_optimization.py) applied to  *)
(*            a query and a container name.                                *)
(*   SpecGraph  the graph endpoints (app/api/v1/endpoints/graph.py) over   *)
(*            the documents of the scanned containers.                     *)
(*   SpecBatch  AsyncCosmosDBService.batch_query and its concurrent tasks. *)
(*   SpecBfs  the center_node filter of get_full_graph on fetched lists.   *)
(*   SpecWrap  the cached_result decorator of app/core/cache.py.           *)
(*   SpecAsync  AsyncCacheService and the async_cached decorator.          *)
(*   SpecMem  the response caches of get_system_health and of the two      *)
(*            get_agents_overview endpoints.                               *)
(*   SpecHealth  the async get_agent_health on top of the cached           *)
(*            get_agents_overview.                                         *)
(*                                                                         *)
(* Python strings whose characters matter (cache keys, container names,    *)
(* queries) are sequences of one-character strings, so that ":".join,      *)
(* str.startswith, str.lower, `in` and str.replace are computed character  *)
(* by character.  Optional values are None or Some(x).                     *)
(***************************************************************************)
EXTENDS Integers, Sequences, FiniteSets, TLC

VARIABLES
    cache,      \* CosmosCache.cache : key -> [data, expires_at, cached_at]
    now,        \* time.time(), in seconds
    lastOp,     \* the last CosmosCache call: its arguments, key and return value
    setLog,     \* history: key -> arguments and time of the last set on that key
    ops,        \* number of CosmosCache calls made so far
    redis,      \* the Redis server: key -> [value, expires_at]
    redis_client, \* cosmos.py redis_client is not None
    async_redis,  \* AsyncCacheService._redis is not None
    redisUp,    \* the Redis server is reachable
    db,         \* the database: its containers, in list_containers() order
    resp,       \* the last endpoint request and its response
    reqs,       \* number of endpoint requests made so far
    hist,       \* history: count_docs -> the last container list computed from the database
    lastMemClear, \* history: time and request number of the last in-process clear_cache
    optQuery,   \* optimize_query: the query argument
    optContainer, \* optimize_query: the container_name argument
    optResult,  \* optimize_query: None before the call, then Some(returned tuple)
    gdb,        \* graph.py: container name -> the documents of the container, newest first
    gresp,      \* graph.py: the last graph request (endpoint, parameters) and its response
    greqs,      \* graph.py: number of graph requests made so far
    batch,      \* AsyncCosmosDBService.batch_query: one call, its tasks and its result
    bfs,        \* get_full_graph: the fetched lists given to the center_node filter, and its result
    wrap,       \* core/cache.py cached_result: CACHE_ENABLED, the Redis entry of the key, the last call
    svc,        \* the AsyncCacheService, its Redis server and the last call made on it
    mem,        \* live_data.py _cache and agents.py _agent_cache, the clock, the database and the last request
    hlt         \* agents_async.py: Redis, the clock, the database and the last request to /status or /health

cacheVars == <<cache, now, lastOp, setLog, ops>>

apiVars == <<redis, redis_client, async_redis, redisUp, db, resp, reqs, hist, lastMemClear>>

optVars == <<optQuery, optContainer, optResult>>

graphVars == <<gdb, gresp, greqs>>

\* the variables of the components modelled after optimize_query
laterVars == <<graphVars, batch, bfs, wrap, svc, mem, hlt>>

besidesGraph == <<cacheVars, apiVars, optVars, batch, bfs, wrap, svc, mem, hlt>>

besidesBatch == <<cacheVars, apiVars, optVars, graphVars, bfs, wrap, svc, mem, hlt>>

besidesBfs == <<cacheVars, apiVars, optVars, graphVars, batch, wrap, svc, mem, hlt>>

besidesWrap == <<cacheVars, apiVars, optVars, graphVars, batch, bfs, svc, mem, hlt>>

besidesSvc == <<cacheVars, apiVars, optVars, graphVars, batch, bfs, wrap, mem, hlt>>

besidesMem == <<cacheVars, apiVars, optVars, graphVars, batch, bfs, wrap, svc, hlt>>

besidesHealth == <<cacheVars, apiVars, optVars, graphVars, batch, bfs, wrap, svc, mem>>

vars == <<cache, now, lastOp, setLog, ops,
          redis, redis_client, async_redis, redisUp, db, resp, reqs, hist, lastMemClear,
          optQuery, optContainer, optResult, laterVars>>


----------------------------------------------------------------------------
(* Optional values and strings                                             *)

None == [none |-> TRUE]

Some(x) == [none |-> FALSE, val |-> x]

\* "prefix:" ... : str.startswith
StartsWith(s, prefix) ==
    /\ Len(prefix) <= Len(s)
    /\ SubSeq(s, 1, Len(prefix)) = prefix

RECURSIVE Join(_, _)
\* sep.join(parts)
Join(sep, parts) ==
    IF Len(parts) = 0 THEN <<>>
    ELSE IF Len(parts) = 1 THEN parts[1]
    ELSE parts[1] \o sep \o Join(sep, Tail(parts))

\* the cache, the cosmos endpoints and optimize_query before any call
BaseIdle ==
    /\ cache = <<>>
    /\ now = 0
    /\ lastOp = [op |-> "init"]
    /\ setLog = <<>>
    /\ ops = 0
    /\ redis = <<>>
    /\ redis_client = FALSE
    /\ async_redis = FALSE
    /\ redisUp = FALSE
    /\ db = <<>>
    /\ resp = [req |-> 0, endpoint |-> "none"]
    /\ reqs = 0
    /\ hist = <<>>
    /\ lastMemClear = [at |-> -1, req |-> 0, container |-> None]
    /\ optQuery = <<>>
    /\ optContainer = <<>>
    /\ optResult = None

\* no graph request has been made
GraphIdle ==
    /\ gdb = <<>>
    /\ gresp = [endpoint |-> "none"]
    /\ greqs = 0

\* batch_query has not been called
BatchIdle == batch = [phase |-> "none"]

BfsIdle == bfs = [phase |-> "none"]

WrapIdle == wrap = [phase |-> "none"]

SvcIdle == svc = [phase |-> "none"]

MemIdle == mem = [phase |-> "none"]

HealthIdle == hlt = [phase |-> "none"]

LaterIdle == GraphIdle /\ BatchIdle /\ BfsIdle /\ WrapIdle /\ SvcIdle /\ MemIdle /\ HealthIdle

IdleBesidesGraph == BaseIdle /\ BatchIdle /\ BfsIdle /\ WrapIdle /\ SvcIdle /\ MemIdle /\ HealthIdle

IdleBesidesBatch == BaseIdle /\ GraphIdle /\ BfsIdle /\ WrapIdle /\ SvcIdle /\ MemIdle /\ HealthIdle

IdleBesidesBfs == BaseIdle /\ GraphIdle /\ BatchIdle /\ WrapIdle /\ SvcIdle /\ MemIdle /\ HealthIdle

IdleBesidesWrap == BaseIdle /\ GraphIdle /\ BatchIdle /\ BfsIdle /\ SvcIdle /\ MemIdle /\ HealthIdle

IdleBesidesSvc == BaseIdle /\ GraphIdle /\ BatchIdle /\ BfsIdle /\ WrapIdle /\ MemIdle /\ HealthIdle

IdleBesidesMem == BaseIdle /\ GraphIdle /\ BatchIdle /\ BfsIdle /\ WrapIdle /\ SvcIdle /\ HealthIdle

IdleBesidesHealth == BaseIdle /\ GraphIdle /\ BatchIdle /\ BfsIdle /\ WrapIdle /\ SvcIdle /\ MemIdle

----------------------------------------------------------------------------
(* Bounds and inputs                                                       *)

\* the clock advances in steps of TickStep seconds, up to MaxTime
TickStep == 150

MaxTime == 300

\* at most MaxOps CosmosCache calls in a behaviour
MaxOps == 3

\* CosmosCache.__init__ default
ttl_seconds == 300

EmptyDict == {}

\* params dictionaries: sets of <<key, value>> items
ParamsQ1 == {<<"q", 1>>}

\* hashlib.md5(json.dumps(params, sort_keys=True).encode()).hexdigest()[:8]
\*   '{"q": 1}' -> 161d992d      '{}' -> 99914b93 (never hashed: {} is falsy)
Md5Hex8(params) ==
    IF params = ParamsQ1 THEN <<"1","6","1","d","9","9","2","d">>
    ELSE <<"9","9","9","1","4","b","9","3">>

\* the (container, operation, params) triples the calls are made with
Triples ==
    { <<<<"a">>,         <<"x">>,         None>>,
      <<<<"a">>,         <<"x">>,         Some(EmptyDict)>>,
      <<<<"a">>,         <<"x">>,         Some(ParamsQ1)>>,
      <<<<"a",":","b">>, <<"x">>,         None>>,
      <<<<"a">>,         <<"b",":","x">>, None>>,
      <<<<"b">>,         <<"x">>,         None>> }

DataValues == {Some("d1"), Some("d2")}

TtlArgs == {None, Some(0), Some(TickStep)}

InvalidateArgs == {None, Some(<<>>), Some(<<"a">>), Some(<<"b">>), Some(<<"a",":","b">>)}

----------------------------------------------------------------------------
(* CosmosCache                                                             *)

\* Python truthiness of an Optional[str]: None and "" are falsy
TruthyStr(x) == ~x.none /\ Len(x.val) > 0

_generate_key(container, operation, params) ==
    LET key_parts == IF ~params.none /\ params.val # EmptyDict
                     THEN <<container, operation, Md5Hex8(params.val)>>
                     ELSE <<container, operation>>
    IN  Join(<<":">>, key_parts)

\* the value CosmosCache.get returns for a key
CacheGetResult(c, key, t) ==
    IF key \in DOMAIN c /\ t < c[key].expires_at THEN c[key].data ELSE None

\* a get that refreshes the entry it hits (sliding expiry)
CacheAfterGet_Sliding(c, key, t) ==
    IF key \in DOMAIN c /\ ~(t < c[key].expires_at)
    THEN [k \in DOMAIN c \ {key} |-> c[k]]
    ELSE [k \in DOMAIN c |->
            IF k = key THEN [c[k] EXCEPT !.expires_at = t + ttl_seconds] ELSE c[k]]

\* the dictionary CosmosCache.get leaves behind: an expired entry is deleted
CacheAfterGet(c, key, t) ==
    IF key \in DOMAIN c /\ ~(t < c[key].expires_at)
    THEN [k \in DOMAIN c \ {key} |-> c[k]]
    ELSE c

\* ttl = ttl or self.ttl_seconds
EffectiveTtl(ttl) == IF ~ttl.none /\ ttl.val # 0 THEN ttl.val ELSE ttl_seconds

\* the dictionary CosmosCache.set leaves behind
CacheAfterSet(c, key, data, ttl, t) ==
    [k \in DOMAIN c \cup {key} |->
        IF k = key
        THEN [data |-> data, expires_at |-> t + EffectiveTtl(ttl), cached_at |-> t]
        ELSE c[k]]

\* the keys CosmosCache.invalidate removes
InvalidatedKeys(c, container) ==
    IF TruthyStr(container)
    THEN {k \in DOMAIN c : StartsWith(k, container.val \o <<":">>)}
    ELSE DOMAIN c

CacheAfterInvalidate(c, container) ==
    [k \in DOMAIN c \ InvalidatedKeys(c, container) |-> c[k]]

----------------------------------------------------------------------------
(* Spec: calls on one CosmosCache                                          *)

Init ==
    /\ cache = <<>>
    /\ now = 0
    /\ lastOp = [op |-> "init"]
    /\ setLog = <<>>
    /\ ops = 0
    /\ redis = <<>>
    /\ redis_client = FALSE
    /\ async_redis = FALSE
    /\ redisUp = FALSE
    /\ db = <<>>
    /\ resp = [req |-> 0, endpoint |-> "none"]
    /\ reqs = 0
    /\ hist = <<>>
    /\ lastMemClear = [at |-> -1, req |-> 0, container |-> None]
    /\ optQuery = <<>>
    /\ optContainer = <<>>
    /\ optResult = None
    /\ LaterIdle

Get(container, operation, params) ==
    LET key == _generate_key(container, operation, params) IN
    /\ ops < MaxOps
    /\ cache' = CacheAfterGet(cache, key, now)
    /\ lastOp' = [op |-> "get", container |-> container, operation |-> operation,
                  params |-> params, key |-> key,
                  ret |-> CacheGetResult(cache, key, now)]
    /\ ops' = ops + 1
    /\ UNCHANGED <<now, setLog>>
    /\ UNCHANGED <<apiVars, optVars, laterVars>>

Set(container, operation, data, params, ttl) ==
    LET key == _generate_key(container, operation, params) IN
    /\ ops < MaxOps
    /\ cache' = CacheAfterSet(cache, key, data, ttl, now)
    /\ lastOp' = [op |-> "set", container |-> container, operation |-> operation,
                  params |-> params, key |-> key, data |-> data, ttl |-> ttl]
    /\ setLog' = [k \in DOMAIN setLog \cup {key} |->
                    IF k = key
                    THEN [container |-> container, operation |-> operation,
                          params |-> params, data |-> data, ttl |-> ttl, at |-> now]
                    ELSE setLog[k]]
    /\ ops' = ops + 1
    /\ UNCHANGED now
    /\ UNCHANGED <<apiVars, optVars, laterVars>>

Invalidate(container) ==
    /\ ops < MaxOps
    /\ cache' = CacheAfterInvalidate(cache, container)
    /\ lastOp' = [op |-> "invalidate", container |-> container]
    /\ setLog' = [k \in DOMAIN setLog \ InvalidatedKeys(setLog, container) |-> setLog[k]]
    /\ ops' = ops + 1
    /\ UNCHANGED now
    /\ UNCHANGED <<apiVars, optVars, laterVars>>

\* the wall clock advances between calls
Tick ==
    /\ now + TickStep <= MaxTime
    /\ now' = now + TickStep
    /\ lastOp' = [op |-> "tick"]
    /\ UNCHANGED <<cache, setLog, ops>>
    /\ UNCHANGED <<apiVars, optVars, laterVars>>

DoGet == \E tr \in Triples : Get(tr[1], tr[2], tr[3])

DoSet == \E tr \in Triples, d \in DataValues, ttl \in TtlArgs :
            Set(tr[1], tr[2], d, tr[3], ttl)

DoInvalidate == \E c \in InvalidateArgs : Invalidate(c)

Next == DoGet \/ DoSet \/ DoInvalidate \/ Tick

Spec == Init /\ [][Next]_vars

----------------------------------------------------------------------------
(* Claims about CosmosCache (checked under Spec)                           *)

\* every entry of the dictionary was written by a recorded set
CacheLogged == DOMAIN cache \subseteq DOMAIN setLog

\* C1: after set(container, operation, data, params, ttl) at time t, a get of
\* the same key at time t' returns data when t <= t' < t + T and None when
\* t' >= t + T, where T is the ttl argument when one was passed and
\* ttl_seconds otherwise (no set or invalidate on the key in between).
C1_TtlContract ==
    (lastOp.op = "get" /\ lastOp.key \in DOMAIN setLog) =>
        LET s == setLog[lastOp.key]
            T == IF s.ttl.none THEN ttl_seconds ELSE s.ttl.val
        IN  lastOp.ret = IF now < s.at + T THEN s.data ELSE None

\* C2: a get that hits changes nothing in the dictionary, and an entry is
\* removed or changed only by a get on its own expired key, by invalidate, or
\* by a set on its own key; no step evicts an entry for size or recency.
C2_Step ==
    /\ (/\ lastOp'.op = "get"
        /\ lastOp'.key \in DOMAIN cache
        /\ now < cache[lastOp'.key].expires_at) => cache' = cache
    /\ \A k \in DOMAIN cache :
         (k \notin DOMAIN cache' \/ cache'[k] # cache[k]) =>
            \/ /\ lastOp'.op = "get"
               /\ lastOp'.key = k
               /\ now >= cache[k].expires_at
               /\ k \notin DOMAIN cache'
            \/ lastOp'.op = "invalidate"
            \/ lastOp'.op = "set" /\ lastOp'.key = k

C2_FixedExpiry == [][C2_Step]_vars

\* a get has hit one of two live entries, after the clock has advanced
C2_Witness ==
    /\ lastOp.op = "get"
    /\ lastOp.ret # None
    /\ Cardinality(DOMAIN cache) >= 2
    /\ now > cache[lastOp.key].cached_at

\* C3: a value returned by get(container, operation, params) was stored by a
\* set with the same container, the same operation and the same params (None
\* and the empty dict being different params).
C3_Isolation ==
    (lastOp.op = "get" /\ lastOp.ret # None) =>
        /\ lastOp.key \in DOMAIN setLog
        /\ setLog[lastOp.key].container = lastOp.container
        /\ setLog[lastOp.key].operation = lastOp.operation
        /\ setLog[lastOp.key].params = lastOp.params

\* C4: invalidate(container) removes every entry stored under that container
\* and leaves every entry stored under another container unchanged;
\* invalidate() without a container empties the dictionary.  (An empty
\* container name is taken as no container, as clear_cache does.)
C4_Step ==
    lastOp'.op = "invalidate" =>
        IF ~TruthyStr(lastOp'.container)
        THEN cache' = <<>>
        ELSE \A k \in DOMAIN cache :
                IF setLog[k].container = lastOp'.container.val
                THEN k \notin DOMAIN cache'
                ELSE k \in DOMAIN cache' /\ cache'[k] = cache[k]

C4_InvalidateByContainer == [][C4_Step]_vars

----------------------------------------------------------------------------
(* The cosmos endpoints (app/api/v1/endpoints/cosmos.py) with their two    *)
(* cache layers: the in-process CosmosCache above and Redis.               *)

\* string constants of cosmos.py, character by character
S_cosmos == <<"c","o","s","m","o","s">>

S_containers == <<"c","o","n","t","a","i","n","e","r","s">>

S_count == <<"c","o","u","n","t">>

S_documents == <<"d","o","c","u","m","e","n","t","s">>

S_search == <<"s","e","a","r","c","h">>

S_stats == <<"s","t","a","t","s">>

S_all == <<"a","l","l">>

S_no_counts == <<"n","o","_","c","o","u","n","t","s">>

S_with_counts == <<"w","i","t","h","_","c","o","u","n","t","s">>

S_agent_logs == <<"a","g","e","n","t","_","l","o","g","s">>

database_name == <<"r","e","s","e","a","r","c","h","-","a","n","a","l","y","t","i","c","s","-","d","b">>

S_agents == <<"a","g","e","n","t","s">>

S_get_agents_overview == <<"g","e","t","_","a","g","e","n","t","s","_","o","v","e","r","v","i","e","w">>

S_inbox == <<"i","n","b","o","x">>

Digits == <<"0","1","2","3","4","5","6","7","8","9">>

RECURSIVE IntStr(_)
\* str(n) for n >= 0
IntStr(n) == IF n < 10 THEN <<Digits[n + 1]>> ELSE IntStr(n \div 10) \o <<Digits[(n % 10) + 1]>>

\* CACHE_TTL, DOCUMENT_CACHE_TTL
CACHE_TTL == 300

DOCUMENT_CACHE_TTL == 60

\* get_documents / search_documents cache only results of at most this size
SmallResult == 50

\* the database contents the endpoints can meet: the containers in
\* list_containers() order, each with its id, its number of documents and the
\* number of them that contain the search term
DbEmpty == <<>>

DbLarge == << [id |-> S_documents, count |-> 60, hits |-> 2],
              [id |-> S_agent_logs, count |-> 0, hits |-> 0] >>

DbStates == {DbEmpty, DbLarge}

\* at most MaxReqs endpoint requests in a behaviour
MaxReqs == 3

\* which database call of a request fails (0: none)
FailAts == {0, 1, 2}

\* the limit values get_documents is called with
Limits == {10, 100}

\* json.dumps gives a str (always non-empty), json.loads gives the value back
JsonDumps(v) == [json |-> v]

JsonLoads(str) == str.json

\* f"cosmos:{key_type}:{':'.join(str(arg) for arg in args)}"
cache_key(key_type, args) ==
    S_cosmos \o <<":">> \o key_type \o <<":">> \o Join(<<":">>, args)

\* get_redis_client: connects (and pings) when there is no client yet
get_redis_client(client, up) == client \/ up

\* Redis GET: the stored string, unless the key is missing or has expired
RedisLive(r, key, t) == key \in DOMAIN r /\ t < r[key].expires_at

\* get_cached_data(key, cache_client): None without a client, on a Redis
\* error and on a miss
get_cached_data(key, client, up, r, t) ==
    IF ~client THEN None
    ELSE IF ~up THEN None
    ELSE IF RedisLive(r, key, t) THEN Some(JsonLoads(r[key].value))
    ELSE None

\* set_cached_data(key, data, ttl, cache_client): SETEX, errors swallowed
set_cached_data(key, data, ttl, client, up, r, t) ==
    IF client /\ up
    THEN [k \in DOMAIN r \cup {key} |->
            IF k = key THEN [value |-> JsonDumps(data), expires_at |-> t + ttl]
            ELSE r[k]]
    ELSE r

\* order of two characters / strings (Python str comparison on ASCII)
Alphabet == <<"-","0","1","2","3","4","5","6","7","8","9",":","_",
              "a","b","c","d","e","f","g","h","i","j","k","l","m",
              "n","o","p","q","r","s","t","u","v","w","x","y","z">>

Ord(ch) == CHOOSE i \in 1..Len(Alphabet) : Alphabet[i] = ch

RECURSIVE StrLess(_, _)
StrLess(a, b) ==
    IF Len(b) = 0 THEN FALSE
    ELSE IF Len(a) = 0 THEN TRUE
    ELSE IF a[1] = b[1] THEN StrLess(Tail(a), Tail(b))
    ELSE Ord(a[1]) < Ord(b[1])

\* sorted(containers, key=id) and sorted(containers, key=count, reverse=True):
\* stable insertion of x into an already sorted list
RECURSIVE InsertSorted(_, _, _)
InsertSorted(x, sorted, by_count) ==
    IF Len(sorted) = 0 THEN <<x>>
    ELSE IF (IF by_count THEN x.count > sorted[1].count
                         ELSE StrLess(x.id, sorted[1].id))
         THEN <<x>> \o sorted
         ELSE <<sorted[1]>> \o InsertSorted(x, Tail(sorted), by_count)

RECURSIVE SortContainers(_, _)
SortContainers(list, by_count) ==
    IF Len(list) = 0 THEN <<>>
    ELSE InsertSorted(list[Len(list)],
                      SortContainers(SubSeq(list, 1, Len(list) - 1), by_count),
                      by_count)

\* what a handler hands back: the HTTP response and the state it leaves
\*   source   "memory" | "redis" | "db" | "none" : where the body came from
\*   dbCalls  database calls issued; reads / writes: cache operations issued
Outcome(status, body, source, c, r, client, dbCalls, reads, writes) ==
    [status |-> status, body |-> body, source |-> source, cache |-> c,
     redis |-> r, client |-> client, dbCalls |-> dbCalls, reads |-> reads,
     writes |-> writes]

\* raise HTTPException(status_code=500, ...)
Http500 == [detail |-> "error"]

\* cache_client = get_redis_client() if use_cache else None
\* (mutant: the client is fetched whatever use_cache says)
CacheClient_Always(use_cache, client, up) == get_redis_client(client, up)

CacheClient(use_cache, client, up) ==
    IF use_cache THEN get_redis_client(client, up) ELSE FALSE

\* the module-level redis_client after the handler fetched its cache_client
ClientAfter(use_cache, client, up) ==
    IF use_cache THEN get_redis_client(client, up) ELSE client

RECURSIVE CountLoop(_, _, _)
\* the per-container document count of get_containers (count_docs) and
\* get_stats: count cache, else COUNT query, then count cache write.
\*   e  = [client, use_cache, up, t, failAt]
\*   st = [infos, r, calls, failed, reads, writes]
CountLoop(list, e, st) ==
    IF Len(list) = 0 \/ st.failed THEN st
    ELSE
      LET ci      == list[1]
          ckey    == cache_key(S_count, <<database_name, ci.id>>)
          probe   == e.client /\ e.use_cache
          count   == IF probe THEN get_cached_data(ckey, e.client, e.up, st.r, e.t)
                     ELSE None
          reads   == st.reads + (IF probe THEN 1 ELSE 0)
      IN  IF ~count.none
          THEN CountLoop(Tail(list), e,
                 [st EXCEPT !.infos = Append(@, [id |-> ci.id, count |-> count.val]),
                            !.reads = reads])
          ELSE IF e.failAt = st.calls + 1
          THEN [st EXCEPT !.failed = TRUE, !.calls = @ + 1, !.reads = reads]
          ELSE CountLoop(Tail(list), e,
                 [st EXCEPT !.infos = Append(@, [id |-> ci.id, count |-> ci.count]),
                            !.calls = @ + 1,
                            !.reads = reads,
                            !.r = set_cached_data(ckey, ci.count, CACHE_TTL,
                                                  e.client, e.up, @, e.t),
                            !.writes = @ + (IF e.client THEN 1 ELSE 0)])

\* container_info['count'] = -1 for every container (count_docs false)
Placeholders(list) == [i \in 1..Len(list) |-> [id |-> list[i].id, count |-> -1]]

\* GET /containers
get_containers(use_cache, count_docs, c, r, client0, up, d, t, failAt) ==
    LET cache_key_suffix == IF count_docs THEN S_with_counts ELSE S_no_counts
        operation   == S_containers \o <<"_">> \o cache_key_suffix
        mkey        == _generate_key(S_all, operation, None)
        cached_data == IF use_cache THEN CacheGetResult(c, mkey, t) ELSE None
        c1          == IF use_cache THEN CacheAfterGet(c, mkey, t) ELSE c
        memReads    == IF use_cache THEN 1 ELSE 0
        cache_client == CacheClient(use_cache, client0, up)
        client1     == ClientAfter(use_cache, client0, up)
        cache_key_str == cache_key(S_containers, <<database_name, cache_key_suffix>>)
        probe       == cache_client /\ use_cache
        cached      == IF probe THEN get_cached_data(cache_key_str, cache_client, up, r, t)
                       ELSE None
        reads1      == memReads + (IF probe THEN 1 ELSE 0)
        e           == [client |-> cache_client, use_cache |-> use_cache, up |-> up,
                        t |-> t, failAt |-> failAt]
        st0         == [infos |-> <<>>, r |-> r, calls |-> 1, failed |-> FALSE,
                        reads |-> reads1, writes |-> 0]
        st          == IF count_docs THEN CountLoop(d, e, st0)
                       ELSE [st0 EXCEPT !.infos = Placeholders(d)]
        sorted_containers == SortContainers(st.infos, count_docs)
        result      == [success |-> TRUE, containers |-> sorted_containers,
                        cached |-> FALSE, timestamp |-> t]
        c2          == IF use_cache
                       THEN CacheAfterSet(c1, mkey, Some(sorted_containers), None, t)
                       ELSE c1
        r2          == IF cache_client
                       THEN set_cached_data(cache_key_str, result, CACHE_TTL,
                                            cache_client, up, st.r, t)
                       ELSE st.r
        writes2     == st.writes + (IF use_cache THEN 1 ELSE 0)
                                 + (IF cache_client THEN 1 ELSE 0)
    IN  IF ~cached_data.none /\ Len(cached_data.val) > 0
        THEN Outcome(200, [success |-> TRUE, containers |-> cached_data.val,
                           cached |-> TRUE, timestamp |-> t],
                     "memory", c1, r, client0, 0, memReads, 0)
        ELSE IF ~cached.none
        THEN Outcome(200, cached.val, "redis", c1, r, client1, 0, reads1, 0)
        ELSE IF failAt = 1
        THEN Outcome(500, Http500, "none", c1, r, client1, 1, reads1, 0)
        ELSE IF st.failed
        THEN Outcome(500, Http500, "none", c1, st.r, client1, st.calls, st.reads,
                     st.writes)
        ELSE Outcome(200, result, "db", c2, r2, client1, st.calls, st.reads, writes2)

\* the container of that id in the database, or <<>>
FindContainer(d, id) == SelectSeq(d, LAMBDA ci : ci.id = id)

Min(a, b) == IF a < b THEN a ELSE b

\* GET /containers/{container_id}/documents  (offset 0, no filter)
get_documents(container_id, limit, use_cache, c, r, client0, up, d, t, failAt) ==
    LET cache_client == CacheClient(use_cache, client0, up)
        client1     == ClientAfter(use_cache, client0, up)
        cache_key_str == cache_key(S_documents,
                            <<container_id, IntStr(limit), IntStr(0), <<>>, <<>>>>)
        probe       == cache_client /\ use_cache /\ limit <= SmallResult
        cached      == IF probe THEN get_cached_data(cache_key_str, cache_client, up, r, t)
                       ELSE None
        reads       == IF probe THEN 1 ELSE 0
        found       == FindContainer(d, container_id)
        documents   == IF Len(found) = 0 THEN <<>>
                       ELSE [i \in 1..Min(limit, found[1].count) |-> i]
        result      == [success |-> TRUE, container |-> container_id,
                        documents |-> documents, count |-> Len(documents),
                        offset |-> 0, limit |-> limit, cached |-> FALSE,
                        timestamp |-> t]
        store       == cache_client /\ Len(documents) <= SmallResult
        r2          == IF store
                       THEN set_cached_data(cache_key_str, result, DOCUMENT_CACHE_TTL,
                                            cache_client, up, r, t)
                       ELSE r
    IN  IF ~cached.none
        THEN Outcome(200, [cached.val EXCEPT !.cached = TRUE], "redis", c, r,
                     client1, 0, reads, 0)
        ELSE IF failAt = 1 \/ Len(found) = 0
        THEN Outcome(500, Http500, "none", c, r, client1, 1, reads, 0)
        ELSE Outcome(200, result, "db", c, r2, client1, 1, reads,
                     IF store THEN 1 ELSE 0)

RECURSIVE SearchLoop(_, _, _, _)
\* the per-container search: a failing query is logged and skipped
\*   st = [results, calls, searched]
SearchLoop(list, limit, failAt, st) ==
    IF Len(list) = 0 \/ Len(st.results) >= limit THEN st
    ELSE
      LET ci   == list[1]
          top  == Min(limit - Len(st.results), ci.hits)
          docs == IF failAt = st.calls + 1 THEN <<>>
                  ELSE [i \in 1..top |-> [container |-> ci.id, document |-> i]]
      IN  SearchLoop(Tail(list), limit, failAt,
                     [results |-> st.results \o docs, calls |-> st.calls + 1,
                      searched |-> st.searched + 1])

\* GET /search  (containers not given)
search_documents(q, limit, use_cache, c, r, client0, up, d, t, failAt) ==
    LET cache_client == CacheClient(use_cache, client0, up)
        client1     == ClientAfter(use_cache, client0, up)
        cache_key_str == cache_key(S_search, <<q, S_all, IntStr(limit)>>)
        probe       == cache_client /\ use_cache
        cached      == IF probe THEN get_cached_data(cache_key_str, cache_client, up, r, t)
                       ELSE None
        reads       == IF probe THEN 1 ELSE 0
        st          == SearchLoop(d, limit, failAt,
                                  [results |-> <<>>, calls |-> 1, searched |-> 0])
        result      == [success |-> TRUE, results |-> st.results,
                        count |-> Len(st.results), search_term |-> q,
                        containers_searched |-> st.searched, cached |-> FALSE,
                        timestamp |-> t]
        store       == cache_client /\ Len(st.results) <= SmallResult
        r2          == IF store
                       THEN set_cached_data(cache_key_str, result, DOCUMENT_CACHE_TTL * 2,
                                            cache_client, up, r, t)
                       ELSE r
    IN  IF ~cached.none
        THEN Outcome(200, [cached.val EXCEPT !.cached = TRUE], "redis", c, r,
                     client1, 0, reads, 0)
        ELSE IF failAt = 1
        THEN Outcome(500, Http500, "none", c, r, client1, 1, reads, 0)
        ELSE Outcome(200, result, "db", c, r2, client1, st.calls, reads,
                     IF store THEN 1 ELSE 0)

RECURSIVE SumCounts(_)
SumCounts(infos) == IF Len(infos) = 0 THEN 0 ELSE infos[1].count + SumCounts(Tail(infos))

\* GET /stats
get_stats(use_cache, c, r, client0, up, d, t, failAt) ==
    LET cache_client == CacheClient(use_cache, client0, up)
        client1     == ClientAfter(use_cache, client0, up)
        cache_key_str == cache_key(S_stats, <<database_name>>)
        probe       == cache_client /\ use_cache
        cached      == IF probe THEN get_cached_data(cache_key_str, cache_client, up, r, t)
                       ELSE None
        reads       == IF probe THEN 1 ELSE 0
        e           == [client |-> cache_client, use_cache |-> use_cache, up |-> up,
                        t |-> t, failAt |-> failAt]
        st          == CountLoop(d, e, [infos |-> <<>>, r |-> r, calls |-> 1,
                                        failed |-> FALSE, reads |-> reads,
                                        writes |-> 0])
        stats       == [database |-> database_name, containers |-> st.infos,
                        totalDocuments |-> SumCounts(st.infos), timestamp |-> t,
                        cacheEnabled |-> cache_client]
        result      == [success |-> TRUE, stats |-> stats, cached |-> FALSE]
        r2          == IF cache_client
                       THEN set_cached_data(cache_key_str, result, CACHE_TTL,
                                            cache_client, up, st.r, t)
                       ELSE st.r
    IN  IF ~cached.none
        THEN Outcome(200, [cached.val EXCEPT !.cached = TRUE], "redis", c, r,
                     client1, 0, reads, 0)
        ELSE IF failAt = 1
        THEN Outcome(500, Http500, "none", c, r, client1, 1, reads, 0)
        ELSE IF st.failed
        THEN Outcome(500, Http500, "none", c, st.r, client1, st.calls, st.reads,
                     st.writes)
        ELSE Outcome(200, result, "db", c, r2, client1, st.calls, st.reads,
                     st.writes + (IF cache_client THEN 1 ELSE 0))

\* POST /cache/clear, first registration (line 542): the in-process layer.
\* (mutant: it also deletes the Redis cosmos:* keys)
clear_cache_Both(container, c, r, client0, up) ==
    Outcome(200, [success |-> TRUE], "none", CacheAfterInvalidate(c, container),
            [k \in {x \in DOMAIN r : ~StartsWith(x, S_cosmos \o <<":">>)} |-> r[k]],
            client0, 0, 0, 0)

clear_cache(container, c, r, client0, up) ==
    Outcome(200, [success |-> TRUE], "none", CacheAfterInvalidate(c, container),
            r, client0, 0, 0, 0)

\* KEYS f"cosmos:{pattern}*" / KEYS "cosmos:*", the pattern taken literally
RedisKeys(r, pattern, t) ==
    LET prefix == IF TruthyStr(pattern) THEN S_cosmos \o <<":">> \o pattern.val
                  ELSE S_cosmos \o <<":">>
    IN  {k \in DOMAIN r : RedisLive(r, k, t) /\ StartsWith(k, prefix)}

\* clear_cache, second definition (line 982): the Redis layer.  Its route
\* repeats POST /cache/clear of line 542.
clear_cache_redis(pattern, c, r, client0, up, t) ==
    LET cache_client == get_redis_client(client0, up)
        keys == RedisKeys(r, pattern, t)
    IN  IF ~cache_client
        THEN Outcome(200, [success |-> FALSE], "none", c, r, cache_client, 0, 0, 0)
        ELSE IF ~up
        THEN Outcome(500, Http500, "none", c, r, cache_client, 0, 0, 0)
        ELSE Outcome(200, [success |-> TRUE, cleared |-> Cardinality(keys)], "none",
                     c, [k \in DOMAIN r \ keys |-> r[k]], cache_client, 0, 0, 0)

\* AsyncCacheService.get_redis: from_url, then ping; None when the ping fails
async_get_redis(conn, up) == conn \/ up

\* AsyncCacheService.set(key, value, ttl): SETEX, False on any error
async_cache_set(key, value, ttl, conn, up, r, t) ==
    IF async_get_redis(conn, up) /\ up
    THEN [k \in DOMAIN r \cup {key} |->
            IF k = key THEN [value |-> JsonDumps(value), expires_at |-> t + ttl]
            ELSE r[k]]
    ELSE r

\* f"{key_prefix}:{func.__name__}:{hash(...)}" of get_agents_overview; the
\* hash of the (empty) arguments is one fixed number per process
AgentsOverviewKey == S_agents \o <<":">> \o S_get_agents_overview \o <<":">> \o IntStr(0)

\* @async_cached(ttl=30, key_prefix="agents")
AgentsOverviewTtl == 30

----------------------------------------------------------------------------
(* SpecApi: requests to the cosmos endpoints                               *)

NoHist == [cd \in BOOLEAN |-> None]

InitApi ==
    /\ cache = <<>>
    /\ now = 0
    /\ lastOp = [op |-> "init"]
    /\ setLog = <<>>
    /\ ops = 0
    /\ redis = <<>>
    /\ redis_client = FALSE
    /\ async_redis = FALSE
    /\ redisUp \in BOOLEAN
    /\ db \in DbStates
    /\ resp = [req |-> 0, endpoint |-> "none", use_cache |-> FALSE,
               count_docs |-> FALSE, status |-> 0, body |-> Http500,
               source |-> "none", dbCalls |-> 0, reads |-> 0, writes |-> 0]
    /\ reqs = 0
    /\ hist = NoHist
    /\ lastMemClear = [at |-> -1, req |-> 0, container |-> None]
    /\ optQuery = <<>>
    /\ optContainer = <<>>
    /\ optResult = None
    /\ LaterIdle

\* one request: the handler's outcome becomes the new state and the response
Respond(endpoint, use_cache, count_docs, out) ==
    /\ reqs < MaxReqs
    /\ reqs' = reqs + 1
    /\ cache' = out.cache
    /\ redis' = out.redis
    /\ redis_client' = out.client
    /\ resp' = [req |-> reqs + 1, endpoint |-> endpoint, use_cache |-> use_cache,
                count_docs |-> count_docs, status |-> out.status, body |-> out.body,
                source |-> out.source, dbCalls |-> out.dbCalls, reads |-> out.reads,
                writes |-> out.writes]
    /\ UNCHANGED <<now, lastOp, setLog, ops, async_redis, redisUp, db, optVars, laterVars>>

GetContainers ==
    \E use_cache \in BOOLEAN, count_docs \in BOOLEAN, failAt \in FailAts :
        LET out == get_containers(use_cache, count_docs, cache, redis, redis_client,
                                  redisUp, db, now, failAt)
        IN  /\ Respond("get_containers", use_cache, count_docs, out)
            /\ hist' = IF use_cache /\ out.status = 200 /\ out.source = "db"
                       THEN [hist EXCEPT ![count_docs] =
                                Some([at |-> now, containers |-> out.body.containers])]
                       ELSE hist
            /\ UNCHANGED lastMemClear

GetDocuments ==
    \E use_cache \in BOOLEAN, limit \in Limits, failAt \in FailAts :
        /\ Respond("get_documents", use_cache, FALSE,
                   get_documents(S_documents, limit, use_cache, cache, redis,
                                 redis_client, redisUp, db, now, failAt))
        /\ UNCHANGED <<hist, lastMemClear>>

SearchDocuments ==
    \E use_cache \in BOOLEAN, failAt \in FailAts :
        /\ Respond("search_documents", use_cache, FALSE,
                   search_documents(S_inbox, 20, use_cache, cache, redis,
                                    redis_client, redisUp, db, now, failAt))
        /\ UNCHANGED <<hist, lastMemClear>>

GetStats ==
    \E use_cache \in BOOLEAN, failAt \in FailAts :
        /\ Respond("get_stats", use_cache, FALSE,
                   get_stats(use_cache, cache, redis, redis_client, redisUp, db,
                             now, failAt))
        /\ UNCHANGED <<hist, lastMemClear>>

ClearCache ==
    \E container \in {None, Some(S_all), Some(S_documents)} :
        /\ Respond("clear_cache", FALSE, FALSE,
                   clear_cache(container, cache, redis, redis_client, redisUp))
        /\ hist' = NoHist
        /\ lastMemClear' = [at |-> now, req |-> reqs + 1, container |-> container]

ClearCacheRedis ==
    \E pattern \in {None, Some(S_count), Some(S_containers)} :
        /\ Respond("clear_cache_redis", FALSE, FALSE,
                   clear_cache_redis(pattern, cache, redis, redis_client, redisUp, now))
        /\ hist' = NoHist
        /\ UNCHANGED lastMemClear

\* the async agents overview stores its result through AsyncCacheService.set
AsyncCacheSet ==
    /\ reqs < MaxReqs
    /\ reqs' = reqs + 1
    /\ redis' = async_cache_set(AgentsOverviewKey, [success |-> TRUE, timestamp |-> now],
                                AgentsOverviewTtl, async_redis, redisUp, redis, now)
    /\ async_redis' = async_get_redis(async_redis, redisUp)
    /\ resp' = [resp EXCEPT !.req = reqs + 1, !.endpoint = "agents_overview"]
    /\ UNCHANGED <<cache, now, lastOp, setLog, ops, redis_client, redisUp, db, hist,
                   lastMemClear, optVars, laterVars>>

\* the Redis server goes down or comes back
RedisFlip ==
    /\ redisUp' = ~redisUp
    /\ UNCHANGED <<cache, now, lastOp, setLog, ops, redis, redis_client, async_redis,
                   db, resp, reqs, hist, lastMemClear, optVars, laterVars>>

\* other writers change the database
DbChange ==
    /\ db' \in DbStates \ {db}
    /\ UNCHANGED <<cache, now, lastOp, setLog, ops, redis, redis_client, async_redis,
                   redisUp, resp, reqs, hist, lastMemClear, optVars, laterVars>>

\* the clock advances; Redis drops the keys whose time has come
ApiTick ==
    /\ now + TickStep <= MaxTime
    /\ now' = now + TickStep
    /\ redis' = [k \in {x \in DOMAIN redis : RedisLive(redis, x, now + TickStep)} |->
                    redis[k]]
    /\ UNCHANGED <<cache, lastOp, setLog, ops, redis_client, async_redis, redisUp, db,
                   resp, reqs, hist, lastMemClear, optVars, laterVars>>

NextApi ==
    \/ GetContainers
    \/ GetDocuments
    \/ SearchDocuments
    \/ GetStats
    \/ ClearCache
    \/ ClearCacheRedis
    \/ AsyncCacheSet
    \/ RedisFlip
    \/ DbChange
    \/ ApiTick

SpecApi == InitApi /\ [][NextApi]_vars

----------------------------------------------------------------------------
(* Claims about the cosmos endpoints (checked under SpecApi)               *)

CosmosReads == {"get_containers", "get_documents", "search_documents", "get_stats"}

\* a step that is a new request to the given endpoint
IsRequest(endpoint) == resp'.req # resp.req /\ resp'.endpoint = endpoint

\* C5: the in-process clear_cache (CosmosCache.invalidate) removes no Redis
\* entry, neither a cosmos:* one nor one of the async cache service, and the
\* Redis clear_cache removes no in-process entry and no entry outside
\* cosmos:*; so a container list computed before an in-process clear can
\* still be returned after it (C5_Witness).
C5_Step ==
    /\ IsRequest("clear_cache") => redis' = redis
    /\ IsRequest("clear_cache_redis") =>
          /\ cache' = cache
          /\ \A k \in DOMAIN redis :
                ~StartsWith(k, S_cosmos \o <<":">>) =>
                    k \in DOMAIN redis' /\ redis'[k] = redis[k]

C5_IndependentLayers == [][C5_Step]_vars

\* after the whole in-process cache was cleared, get_containers(use_cache=true)
\* has returned a list computed before the clear, which the database no longer
\* holds
C5_Witness ==
    /\ resp.endpoint = "get_containers"
    /\ resp.use_cache
    /\ resp.status = 200
    /\ lastMemClear.req > 0
    /\ lastMemClear.container = None
    /\ resp.req > lastMemClear.req
    /\ resp.body.timestamp < lastMemClear.at
    /\ Len(resp.body.containers) # Len(db)
    /\ cache = <<>>

\* C6: after get_containers(use_cache=true) computed a container list from
\* the database, a call with the same count_docs made less than 300 s later
\* (no clear_cache in between) returns that list and issues no database call,
\* whatever the list is.
C6_Step ==
    (/\ IsRequest("get_containers")
     /\ resp'.use_cache
     /\ ~hist[resp'.count_docs].none
     /\ now < hist[resp'.count_docs].val.at + ttl_seconds)
    => /\ resp'.status = 200
       /\ resp'.dbCalls = 0
       /\ resp'.body.containers = hist[resp'.count_docs].val.containers

C6_CachingWorks == [][C6_Step]_vars

\* C7: a 200 response of get_containers, get_documents, search_documents or
\* get_stats has cached = true exactly when its body came from a cache layer
\* (in-process or Redis) and cached = false when it was computed from the
\* database.
C7_CachedFlag ==
    (resp.endpoint \in CosmosReads /\ resp.status = 200) =>
        (resp.body.cached <=> resp.source \in {"memory", "redis"})

\* C8: with use_cache=false the four endpoints issue no cache read and no
\* cache write, leave the in-process dictionary, Redis and the Redis client
\* as they were, and compute a 200 response from the database.
C8_Step ==
    (/\ resp'.req # resp.req
     /\ resp'.endpoint \in CosmosReads
     /\ ~resp'.use_cache)
    => /\ cache' = cache
       /\ redis' = redis
       /\ redis_client' = redis_client
       /\ resp'.reads = 0
       /\ resp'.writes = 0
       /\ resp'.status = 200 => (resp'.source = "db" /\ resp'.dbCalls >= 1 /\ ~resp'.body.cached)

C8_NoCacheBypass == [][C8_Step]_vars

\* get_stats(use_cache=false) answered from the database while Redis, up and
\* connected, held a live stats entry and the in-process cache held a list
C8_Witness ==
    /\ resp.endpoint = "get_stats"
    /\ ~resp.use_cache
    /\ resp.status = 200
    /\ redisUp
    /\ redis_client
    /\ RedisLive(redis, cache_key(S_stats, <<database_name>>), now)
    /\ cache # <<>>

----------------------------------------------------------------------------
(* optimize_query (app/core/cosmos_optimization.py)                        *)

UpperCase == <<"A","B","C","D","E","F","G","H","I","J","K","L","M",
               "N","O","P","Q","R","S","T","U","V","W","X","Y","Z">>

LowerCase == <<"a","b","c","d","e","f","g","h","i","j","k","l","m",
               "n","o","p","q","r","s","t","u","v","w","x","y","z">>

LowerChar(ch) ==
    IF \E i \in 1..Len(UpperCase) : UpperCase[i] = ch
    THEN LowerCase[CHOOSE i \in 1..Len(UpperCase) : UpperCase[i] = ch]
    ELSE ch

\* str.lower
Lower(str) == [i \in 1..Len(str) |-> LowerChar(str[i])]

\* the positions at which sub occurs in str
Occurrences(str, sub) ==
    {i \in 1..(Len(str) - Len(sub) + 1) : SubSeq(str, i, i + Len(sub) - 1) = sub}

\* sub in str
Contains(str, sub) == Occurrences(str, sub) # {}

\* str.find(sub) + 1: the first position of sub in str, 0 when there is none
FindFirst(str, sub) ==
    IF Occurrences(str, sub) = {} THEN 0
    ELSE CHOOSE i \in Occurrences(str, sub) : \A j \in Occurrences(str, sub) : i <= j

\* str.replace(old, new, 1)
ReplaceFirst(str, old, new) ==
    LET i == FindFirst(str, old)
    IN  IF i = 0 THEN str
        ELSE SubSeq(str, 1, i - 1) \o new \o SubSeq(str, i + Len(old), Len(str))

S_agent_name == <<"a","g","e","n","t","_","n","a","m","e">>

S_workspace == <<"w","o","r","k","s","p","a","c","e">>

S_category == <<"c","a","t","e","g","o","r","y">>

S_agent_session_logs == <<"a","g","e","n","t","_","s","e","s","s","i","o","n","_","l","o","g","s">>

S_working_contexts == <<"w","o","r","k","i","n","g","_","c","o","n","t","e","x","t","s">>

S_memory_contexts == <<"m","e","m","o","r","y","_","c","o","n","t","e","x","t","s">>

S_journal_entries == <<"j","o","u","r","n","a","l","_","e","n","t","r","i","e","s">>

S_system_inbox == <<"s","y","s","t","e","m","_","i","n","b","o","x">>

S_agent_status == <<"a","g","e","n","t","_","s","t","a","t","u","s">>

S_messages == <<"m","e","s","s","a","g","e","s">>

S_default == <<"d","e","f","a","u","l","t">>

KW_WHERE == <<"W","H","E","R","E">>

KW_ORDER_BY == <<"O","R","D","E","R"," ","B","Y">>

KW_where == <<"w","h","e","r","e">>

KW_order_by == <<"o","r","d","e","r"," ","b","y">>

PartitionKeyParam == <<" ","="," ","@","p","a","r","t","i","t","i","o","n","K","e","y">>

\* partition_strategies: container -> (partition_field, partition_value)
partition_strategies ==
    { <<S_agent_logs,         S_agent_name, None>>,
      <<S_agent_session_logs, S_agent_name, None>>,
      <<S_documents,          S_workspace,  Some(S_default)>>,
      <<S_working_contexts,   S_agent_name, None>>,
      <<S_memory_contexts,    S_agent_name, None>>,
      <<S_journal_entries,    S_agent_name, None>>,
      <<S_system_inbox,       S_category,   Some(S_inbox)>>,
      <<S_agent_status,       S_agent_name, None>> }

\* container_name in partition_strategies
HasStrategy(container_name) == \E e \in partition_strategies : e[1] = container_name

Strategy(container_name) == CHOOSE e \in partition_strategies : e[1] = container_name

\* f"c.{partition_field} = @partitionKey"
PartitionFilter(partition_field) == <<"c", ".">> \o partition_field \o PartitionKeyParam

\* add the partition key filter if not present
RewriteQuery(query, partition_field) ==
    LET filter == PartitionFilter(partition_field)
    IN  IF Contains(Lower(query), <<"c", ".">> \o partition_field) THEN query
        ELSE IF Contains(Lower(query), KW_where)
        THEN ReplaceFirst(query, KW_WHERE,
                          KW_WHERE \o <<" ">> \o filter \o <<" ","A","N","D">>)
        ELSE IF Contains(Lower(query), KW_order_by)
        THEN ReplaceFirst(query, KW_ORDER_BY,
                          KW_WHERE \o <<" ">> \o filter \o <<" ">> \o KW_ORDER_BY)
        ELSE query \o <<" ">> \o KW_WHERE \o <<" ">> \o filter

\* optimize_query(query, container_name) -> (optimized_query, partition_key_value)
optimize_query(query, container_name) ==
    IF ~HasStrategy(container_name) THEN <<query, None>>
    ELSE LET partition_field == Strategy(container_name)[2]
             partition_value == Strategy(container_name)[3]
         IN  <<RewriteQuery(query, partition_field), partition_value>>

\* the queries optimize_query is called with
\* SELECT * FROM c
Q_plain ==
    <<"S","E","L","E","C","T"," ","*"," ","F","R","O","M"," ","c">>

\* SELECT * FROM c WHERE c.a = 1
Q_where ==
    <<"S","E","L","E","C","T"," ","*"," ","F","R","O","M"," ","c"," ","W","H",
      "E","R","E"," ","c",".","a"," ","="," ","1">>

\* SELECT * FROM c WHERE c.a = 1 AND c.b = 2
Q_and ==
    <<"S","E","L","E","C","T"," ","*"," ","F","R","O","M"," ","c"," ","W","H",
      "E","R","E"," ","c",".","a"," ","="," ","1"," ","A","N","D"," ","c",".",
      "b"," ","="," ","2">>

\* SELECT * FROM c WHERE c.a = 1 OR c.b = 2
Q_or ==
    <<"S","E","L","E","C","T"," ","*"," ","F","R","O","M"," ","c"," ","W","H",
      "E","R","E"," ","c",".","a"," ","="," ","1"," ","O","R"," ","c",".","b",
      " ","="," ","2">>

\* SELECT * FROM c ORDER BY c._ts DESC
Q_order ==
    <<"S","E","L","E","C","T"," ","*"," ","F","R","O","M"," ","c"," ","O","R",
      "D","E","R"," ","B","Y"," ","c",".","_","t","s"," ","D","E","S","C">>

\* SELECT * FROM c WHERE c.b = 2 ORDER BY c._ts DESC
Q_where_order ==
    <<"S","E","L","E","C","T"," ","*"," ","F","R","O","M"," ","c"," ","W","H",
      "E","R","E"," ","c",".","b"," ","="," ","2"," ","O","R","D","E","R"," ",
      "B","Y"," ","c",".","_","t","s"," ","D","E","S","C">>

\* select * from c where c.a = 1
Q_lower ==
    <<"s","e","l","e","c","t"," ","*"," ","f","r","o","m"," ","c"," ","w","h",
      "e","r","e"," ","c",".","a"," ","="," ","1">>

\* select * from c order by c._ts desc
Q_lower_order ==
    <<"s","e","l","e","c","t"," ","*"," ","f","r","o","m"," ","c"," ","o","r",
      "d","e","r"," ","b","y"," ","c",".","_","t","s"," ","d","e","s","c">>

\* SELECT * FROM c WHERE c.agent_name = 'x'
Q_agent ==
    <<"S","E","L","E","C","T"," ","*"," ","F","R","O","M"," ","c"," ","W","H",
      "E","R","E"," ","c",".","a","g","e","n","t","_","n","a","m","e"," ","=",
      " ","'","x","'">>

\* SELECT * FROM c WHERE c.category = 'y' OR c.workspace = 'z'
Q_category ==
    <<"S","E","L","E","C","T"," ","*"," ","F","R","O","M"," ","c"," ","W","H",
      "E","R","E"," ","c",".","c","a","t","e","g","o","r","y"," ","="," ","'",
      "y","'"," ","O","R"," ","c",".","w","o","r","k","s","p","a","c","e"," ",
      "="," ","'","z","'">>

Queries == {Q_plain, Q_where, Q_and, Q_or, Q_order, Q_where_order, Q_lower,
            Q_lower_order, Q_agent, Q_category}

ContainerNames == {e[1] : e \in partition_strategies} \cup {S_messages}

InitOpt ==
    /\ cache = <<>>
    /\ now = 0
    /\ lastOp = [op |-> "init"]
    /\ setLog = <<>>
    /\ ops = 0
    /\ redis = <<>>
    /\ redis_client = FALSE
    /\ async_redis = FALSE
    /\ redisUp = FALSE
    /\ db = <<>>
    /\ resp = [req |-> 0, endpoint |-> "none"]
    /\ reqs = 0
    /\ hist = <<>>
    /\ lastMemClear = [at |-> -1, req |-> 0, container |-> None]
    /\ optQuery \in Queries
    /\ optContainer \in ContainerNames
    /\ optResult = None
    /\ LaterIdle

OptimizeQuery ==
    /\ optResult = None
    /\ optResult' = Some(optimize_query(optQuery, optContainer))
    /\ UNCHANGED <<optQuery, optContainer, cacheVars, apiVars, laterVars>>

NextOpt == OptimizeQuery

SpecOpt == InitOpt /\ [][NextOpt]_vars

----------------------------------------------------------------------------
(* What a rewritten query selects.  The database evaluates the WHERE       *)
(* condition with AND binding tighter than OR; a document is a record of   *)
(* literals, its field `part` standing for the container's partition field. *)

RECURSIVE Split(_, _)
\* str.split(sep)
Split(str, sep) ==
    LET i == FindFirst(str, sep)
    IN  IF i = 0 THEN <<str>>
        ELSE <<SubSeq(str, 1, i - 1)>> \o Split(SubSeq(str, i + Len(sep), Len(str)), sep)

\* the text between WHERE and ORDER BY (or the end); None without a WHERE
WhereCondition(query) ==
    LET w == FindFirst(query, <<" ">> \o KW_WHERE \o <<" ">>)
        rest == SubSeq(query, w + Len(KW_WHERE) + 2, Len(query))
        o == FindFirst(rest, <<" ">> \o KW_ORDER_BY)
    IN  IF w = 0 THEN None
        ELSE IF o = 0 THEN Some(rest)
        ELSE Some(SubSeq(rest, 1, o - 1))

DocValues == {<<"1">>, <<"2">>}

PartValues == {<<"'","p","'">>, <<"'","q","'">>}

Docs == [a : DocValues, b : DocValues, part : PartValues]

\* the value of c.<name> in doc; None when the document has no such field
FieldOf(doc, name, partition_field) ==
    IF name = partition_field THEN Some(doc.part)
    ELSE IF name = <<"a">> THEN Some(doc.a)
    ELSE IF name = <<"b">> THEN Some(doc.b)
    ELSE None

\* c.<name> = <literal or @partitionKey>
EvalAtom(atom, doc, partition_field, pk) ==
    LET sides == Split(atom, <<" ","="," ">>)
        name  == SubSeq(sides[1], 3, Len(sides[1]))
        rhs   == IF <<" ","="," ">> \o sides[2] = PartitionKeyParam THEN pk ELSE sides[2]
        value == FieldOf(doc, name, partition_field)
    IN  /\ Len(sides) = 2
        /\ ~value.none
        /\ value.val = rhs

\* a OR-list of AND-lists of atoms
EvalCondition(cond, doc, partition_field, pk) ==
    LET disjuncts == Split(cond, <<" ","O","R"," ">>)
    IN  \E i \in 1..Len(disjuncts) :
            LET atoms == Split(disjuncts[i], <<" ","A","N","D"," ">>)
            IN  \A j \in 1..Len(atoms) : EvalAtom(atoms[j], doc, partition_field, pk)

\* doc is selected by query when @partitionKey is bound to pk
Selects(query, doc, partition_field, pk) ==
    LET cond == WhereCondition(query)
    IN  cond.none \/ EvalCondition(cond.val, doc, partition_field, pk)

----------------------------------------------------------------------------
(* Claims about optimize_query (checked under SpecOpt)                      *)

\* C9: for a container of partition_strategies and a query that does not
\* reference c.<partition field>, the returned query contains
\* "WHERE c.<partition field> = @partitionKey" (followed by AND after an
\* existing WHERE, by ORDER BY before an existing ORDER BY, and at the end
\* otherwise); for any other container the query comes back unchanged with
\* partition key value None.
C9_PartitionFilterInserted ==
    ~optResult.none =>
        LET out == optResult.val[1] IN
        IF ~HasStrategy(optContainer)
        THEN optResult.val = <<optQuery, None>>
        ELSE LET field  == Strategy(optContainer)[2]
                 clause == KW_WHERE \o <<" ">> \o PartitionFilter(field)
             IN  ~Contains(Lower(optQuery), <<"c", ".">> \o field) =>
                    /\ Contains(out, clause)
                    /\ optResult.val[2] = Strategy(optContainer)[3]
                    /\ Contains(Lower(optQuery), KW_where) =>
                          Contains(out, clause \o <<" ","A","N","D"," ">>)
                    /\ (~Contains(Lower(optQuery), KW_where)
                        /\ Contains(Lower(optQuery), KW_order_by)) =>
                          Contains(Lower(out), Lower(clause \o <<" ">> \o KW_ORDER_BY))
                    /\ (~Contains(Lower(optQuery), KW_where)
                        /\ ~Contains(Lower(optQuery), KW_order_by)) =>
                          out = optQuery \o <<" ">> \o clause

\* C10: every document selected by a rewritten query is selected by the
\* original query and has the partition field equal to @partitionKey,
\* whatever AND / OR structure the original condition has.
C10_OnlyTargetPartition ==
    (/\ ~optResult.none
     /\ HasStrategy(optContainer)
     /\ optResult.val[1] # optQuery)
    => LET field == Strategy(optContainer)[2] IN
       \A doc \in Docs, pk \in PartValues :
          Selects(optResult.val[1], doc, field, pk) =>
             /\ Selects(optQuery, doc, field, pk)
             /\ doc.part = pk

----------------------------------------------------------------------------
(* Graph explorer (app/api/v1/endpoints/graph.py)                           *)
(*                                                                         *)
(* A document is a record of the keys the handlers read; a key the         *)
(* document does not have is None.  A handler parameter is None, Some(str) *)
(* or, when one handler calls another as a plain function without passing *)
(* it, the fastapi Query object that is the parameter's Python default.    *)

S_identity_cards == <<"i","d","e","n","t","i","t","y","_","c","a","r","d","s">>

T_agent == <<"a","g","e","n","t">>

T_session == <<"s","e","s","s","i","o","n">>

T_message == <<"m","e","s","s","a","g","e">>

T_context == <<"c","o","n","t","e","x","t">>

T_memory == <<"m","e","m","o","r","y">>

T_document == <<"d","o","c","u","m","e","n","t">>

E_participates == <<"p","a","r","t","i","c","i","p","a","t","e","s">>

E_sends_to == <<"s","e","n","d","s","_","t","o">>

E_has_context == <<"h","a","s","_","c","o","n","t","e","x","t">>

E_remembers == <<"r","e","m","e","m","b","e","r","s">>

containers_to_check ==
    <<S_agent_session_logs, S_system_inbox, S_identity_cards,
      S_working_contexts, S_journal_entries, S_memory_contexts>>

\* the keys of node_colors
node_colors == {T_agent, T_session, T_message, T_context, T_memory, T_document}

\* Query(None): an object, hence truthy and equal to no string
QueryDefault == [none |-> FALSE, default |-> None]

\* bool(param)
TruthyParam(p) == p = QueryDefault \/ TruthyStr(p)

\* param != s, for a string s
ParamNe(p, s) == p = QueryDefault \/ p.none \/ p.val # s

\* a or b
PyOr(a, b) == IF TruthyStr(a) THEN a ELSE b

Doc(id, agentName, agent_name, sessionId, session_id, from, to, content) ==
    [id |-> id, agentName |-> agentName, agent_name |-> agent_name,
     sessionId |-> sessionId, session_id |-> session_id, from |-> from, to |-> to,
     content |-> content]

\* the values of the keys the document has, in key order
DocValueList(doc) ==
    LET opt == <<doc.agentName, doc.agent_name, doc.sessionId, doc.session_id,
                 doc.from, doc.to, doc.content>>
    IN  <<doc.id>> \o
        [i \in 1..Cardinality({j \in 1..7 : ~opt[j].none}) |->
            opt[CHOOSE j \in 1..7 :
                    /\ ~opt[j].none
                    /\ Cardinality({k \in 1..j : ~opt[k].none}) = i].val]

\* str(doc): the key names hold neither "context" nor "memory", so only the
\* values are written out
DocStr(doc) == Join(<<",", " ">>, DocValueList(doc))

\* the search condition of get_graph_nodes, as the database evaluates it
SearchMatches(doc, term) ==
    \E f \in {Some(doc.id), doc.content, doc.agentName, doc.agent_name} :
        ~f.none /\ Contains(Lower(f.val), Lower(term))

RECURSIVE FilterDocs(_, _)
FilterDocs(docs, term) ==
    IF Len(docs) = 0 THEN <<>>
    ELSE (IF SearchMatches(docs[1], term) THEN <<docs[1]>> ELSE <<>>)
         \o FilterDocs(Tail(docs), term)

Take(seq, n) == SubSeq(seq, 1, Min(n, Len(seq)))

\* a query that never fails: the documents of every container are returned
QueryContainer_Unfailing(contents, name, failing, search, lim) ==
    IF search = QueryDefault THEN None
    ELSE Some(Take(IF TruthyParam(search) THEN FilterDocs(contents[name], search.val)
                   ELSE contents[name], lim))

\* list(container.query_items(...)): None when the query raises, which it
\* does for a failing container and for a parameter that cannot be serialized
QueryContainer(contents, name, failing, search, lim) ==
    IF name \in failing \/ search = QueryDefault THEN None
    ELSE Some(Take(IF TruthyParam(search) THEN FilterDocs(contents[name], search.val)
                   ELSE contents[name], lim))

\* node_type_detected
NodeTypeDetected(container_name, doc) ==
    IF container_name = S_agent_session_logs
    THEN (IF TruthyStr(doc.agentName) \/ TruthyStr(doc.agent_name)
          THEN T_agent ELSE T_session)
    ELSE IF container_name = S_system_inbox THEN T_message
    ELSE IF Contains(container_name, T_context) THEN T_context
    ELSE IF Contains(container_name, T_memory) THEN T_memory
    ELSE T_document

\* node size in thousandths: 1.0, or min(5.0, len(content) / 1000 + 1)
NodeSize(doc) ==
    IF TruthyStr(doc.content) THEN Min(5000, Len(doc.content.val) + 1000) ELSE 1000

GraphNode(container_name, doc) ==
    [id |-> doc.id, type |-> NodeTypeDetected(container_name, doc), size |-> NodeSize(doc)]

RECURSIVE NodesOfDocs(_, _, _)
\* the loop over the documents of one container
NodesOfDocs(container_name, docs, node_type) ==
    IF Len(docs) = 0 THEN <<>>
    ELSE LET doc == docs[1] IN
         (IF Len(doc.id) = 0 THEN <<>>
          ELSE IF TruthyParam(node_type)
                  /\ ParamNe(node_type, NodeTypeDetected(container_name, doc))
          THEN <<>>
          ELSE <<GraphNode(container_name, doc)>>)
         \o NodesOfDocs(container_name, Tail(docs), node_type)

RECURSIVE ScanNodes(_, _, _, _, _, _)
\* the loop over containers_to_check, from container number i on
ScanNodes(i, contents, failing, node_type, search, limit) ==
    IF i > Len(containers_to_check) THEN <<>>
    ELSE LET name == containers_to_check[i]
             docs == QueryContainer(contents, name, failing, search,
                                    (limit \div Len(containers_to_check)) + 10)
         IN  (IF docs.none THEN <<>> ELSE NodesOfDocs(name, docs.val, node_type))
             \o ScanNodes(i + 1, contents, failing, node_type, search, limit)

RECURSIVE UniqueNodes(_, _)
\* unique_nodes: the first node of every id, in order
UniqueNodes(nodes, seen) ==
    IF Len(nodes) = 0 THEN <<>>
    ELSE IF nodes[1].id \in seen THEN UniqueNodes(Tail(nodes), seen)
    ELSE <<nodes[1]>> \o UniqueNodes(Tail(nodes), seen \cup {nodes[1].id})

Range(seq) == {seq[i] : i \in DOMAIN seq}

get_graph_nodes(node_type, search, limit, contents, failing) ==
    LET final_nodes == Take(UniqueNodes(ScanNodes(1, contents, failing, node_type,
                                                  search, limit), {}), limit)
    IN  [success |-> TRUE, nodes |-> final_nodes, count |-> Len(final_nodes),
         node_types |-> {n.type : n \in Range(final_nodes)}]

RECURSIVE Upsert(_, _)
\* all_docs[doc_id] = doc: a known id keeps its place and takes the new document
Upsert(docs, doc) ==
    IF Len(docs) = 0 THEN <<doc>>
    ELSE IF docs[1].id = doc.id THEN <<doc>> \o Tail(docs)
    ELSE <<docs[1]>> \o Upsert(Tail(docs), doc)

RECURSIVE UpsertAll(_, _)
UpsertAll(all_docs, docs) ==
    IF Len(docs) = 0 THEN all_docs
    ELSE UpsertAll(IF Len(docs[1].id) > 0 THEN Upsert(all_docs, docs[1]) ELSE all_docs,
                   Tail(docs))

RECURSIVE CollectDocs(_, _, _, _)
\* first pass of get_graph_edges: all_docs after the containers from number i on
CollectDocs(i, contents, failing, all_docs) ==
    IF i > Len(containers_to_check) THEN all_docs
    ELSE LET docs == QueryContainer(contents, containers_to_check[i], failing, None, 200)
         IN  CollectDocs(i + 1, contents, failing,
                         IF docs.none THEN all_docs ELSE UpsertAll(all_docs, docs.val))

\* an edge counter that lives on between requests
EdgeId_Persistent(edge_id_counter) ==
    <<"e","d","g","e","_">> \o IntStr(edge_id_counter + greqs)

\* f"edge_{edge_id_counter}"
EdgeId(edge_id_counter) == <<"e","d","g","e","_">> \o IntStr(edge_id_counter)

GraphEdge(counter, source, target, type) ==
    [id |-> EdgeId(counter), source |-> source, target |-> target, type |-> type]

\* not edge_type or edge_type == type
EdgeTypeWanted(edge_type, type) == ~TruthyParam(edge_type) \/ ~ParamNe(edge_type, type)

\* the four relationship tests on one document: the candidate edges in code
\* order, each with the flag of its test
EdgeTests(doc) ==
    LET session_id == PyOr(doc.sessionId, doc.session_id)
        agent_name == PyOr(doc.agentName, doc.agent_name)
        text       == Lower(DocStr(doc))
    IN  << [on |-> TruthyStr(session_id) /\ TruthyStr(agent_name),
            source |-> agent_name, target |-> session_id, type |-> E_participates],
           [on |-> TruthyStr(doc.from) /\ TruthyStr(doc.to),
            source |-> doc.from, target |-> doc.to, type |-> E_sends_to],
           [on |-> TruthyStr(agent_name) /\ Contains(text, T_context),
            source |-> agent_name, target |-> Some(doc.id), type |-> E_has_context],
           [on |-> TruthyStr(agent_name) /\ Contains(text, T_memory),
            source |-> agent_name, target |-> Some(doc.id), type |-> E_remembers] >>

RECURSIVE EdgesOfTests(_, _, _, _)
\* the edges appended for one document, with the counter after them
EdgesOfTests(tests, k, counter, edge_type) ==
    IF k > Len(tests) THEN [edges |-> <<>>, counter |-> counter]
    ELSE LET t == tests[k] IN
         IF ~t.on THEN EdgesOfTests(tests, k + 1, counter, edge_type)
         ELSE LET rest == EdgesOfTests(tests, k + 1, counter + 1, edge_type)
              IN  [rest EXCEPT !.edges =
                      (IF EdgeTypeWanted(edge_type, t.type)
                       THEN <<GraphEdge(counter, t.source.val, t.target.val, t.type)>>
                       ELSE <<>>) \o @]

RECURSIVE FindRelationships(_, _, _, _)
\* second pass of get_graph_edges
FindRelationships(all_docs, counter, source_id, edge_type) ==
    IF Len(all_docs) = 0 THEN <<>>
    ELSE IF TruthyParam(source_id) /\ ParamNe(source_id, all_docs[1].id)
    THEN FindRelationships(Tail(all_docs), counter, source_id, edge_type)
    ELSE LET r == EdgesOfTests(EdgeTests(all_docs[1]), 1, counter, edge_type)
         IN  r.edges \o FindRelationships(Tail(all_docs), r.counter, source_id, edge_type)

\* f"{edge.source}-{edge.target}-{edge.type}"
EdgeKey(edge) == Join(<<"-">>, <<edge.source, edge.target, edge.type>>)

RECURSIVE UniqueEdges(_, _)
UniqueEdges(edges, seen) ==
    IF Len(edges) = 0 THEN <<>>
    ELSE IF EdgeKey(edges[1]) \in seen THEN UniqueEdges(Tail(edges), seen)
    ELSE <<edges[1]>> \o UniqueEdges(Tail(edges), seen \cup {EdgeKey(edges[1])})

RECURSIVE FilterTarget(_, _)
\* [edge for edge in edges if edge.target == target_id]
FilterTarget(edges, target_id) ==
    IF Len(edges) = 0 THEN <<>>
    ELSE (IF ParamNe(target_id, edges[1].target) THEN <<>> ELSE <<edges[1]>>)
         \o FilterTarget(Tail(edges), target_id)

\* the edge list before the target filter, de-duplication and limit
InferredEdges(source_id, edge_type, contents, failing) ==
    FindRelationships(CollectDocs(1, contents, failing, <<>>), 0, source_id, edge_type)

get_graph_edges(source_id, target_id, edge_type, limit, contents, failing) ==
    LET edges == InferredEdges(source_id, edge_type, contents, failing)
        kept  == IF TruthyParam(target_id) THEN FilterTarget(edges, target_id) ELSE edges
        final_edges == Take(UniqueEdges(kept, {}), limit)
    IN  [success |-> TRUE, edges |-> final_edges, count |-> Len(final_edges),
         edge_types |-> {e.type : e \in Range(final_edges)}]

RECURSIVE VisitEdges(_, _, _, _, _)
\* the for loop over edges for one dequeued node: connected_nodes and queue after it
VisitEdges(edges, current_node, depth, connected_nodes, queue) ==
    IF Len(edges) = 0 THEN [connected_nodes |-> connected_nodes, queue |-> queue]
    ELSE LET edge == edges[1] IN
         IF edge.source = current_node /\ edge.target \notin connected_nodes
         THEN VisitEdges(Tail(edges), current_node, depth,
                         connected_nodes \cup {edge.target},
                         Append(queue, <<edge.target, depth + 1>>))
         ELSE IF edge.target = current_node /\ edge.source \notin connected_nodes
         THEN VisitEdges(Tail(edges), current_node, depth,
                         connected_nodes \cup {edge.source},
                         Append(queue, <<edge.source, depth + 1>>))
         ELSE VisitEdges(Tail(edges), current_node, depth, connected_nodes, queue)

\* a depth test that lets the search go one hop further
DepthReached_Late(depth, max_depth) == depth > max_depth

\* if depth >= max_depth: continue
DepthReached(depth, max_depth) == depth >= max_depth

RECURSIVE BfsLoop(_, _, _, _)
\* while queue: ...
BfsLoop(queue, connected_nodes, edges, max_depth) ==
    IF Len(queue) = 0 THEN connected_nodes
    ELSE LET current_node == queue[1][1]
             depth        == queue[1][2]
         IN  IF DepthReached(depth, max_depth)
             THEN BfsLoop(Tail(queue), connected_nodes, edges, max_depth)
             ELSE LET v == VisitEdges(edges, current_node, depth, connected_nodes,
                                      Tail(queue))
                  IN  BfsLoop(v.queue, v.connected_nodes, edges, max_depth)

\* the center_node filter of get_full_graph
BfsFilter(nodes, edges, center_node, max_depth) ==
    IF ~TruthyParam(center_node) THEN [nodes |-> nodes, edges |-> edges]
    ELSE LET connected_nodes ==
                 BfsLoop(<< <<center_node.val, 0>> >>, {center_node.val}, edges, max_depth)
             KeepNode(node) == node.id \in connected_nodes
             KeepEdge(edge) == edge.source \in connected_nodes
                               /\ edge.target \in connected_nodes
         IN  [nodes |-> SelectSeq(nodes, KeepNode), edges |-> SelectSeq(edges, KeepEdge)]

\* node_connections[node_id]
Connections(edges, node_id) ==
    Cardinality({i \in DOMAIN edges : edges[i].source = node_id})
    + Cardinality({i \in DOMAIN edges : edges[i].target = node_id})

\* node.size = max(1.0, min(10.0, connections / 2 + 1)), in thousandths
Resize(nodes, edges) ==
    [i \in DOMAIN nodes |->
        [nodes[i] EXCEPT !.size =
            LET m == Min(10000, Connections(edges, nodes[i].id) * 500 + 1000)
            IN  IF m < 1000 THEN 1000 ELSE m]]

get_full_graph(max_nodes, max_depth, center_node, contents, failing) ==
    LET nodes_response == get_graph_nodes(QueryDefault, QueryDefault, max_nodes,
                                          contents, failing)
        edges_response == get_graph_edges(QueryDefault, QueryDefault, QueryDefault,
                                          max_nodes * 2, contents, failing)
        kept == BfsFilter(nodes_response.nodes, edges_response.edges, center_node,
                          max_depth)
    IN  [success |-> TRUE,
         nodes |-> Resize(kept.nodes, kept.edges),
         edges |-> kept.edges,
         metadata |-> [node_count |-> Len(kept.nodes), edge_count |-> Len(kept.edges)]]

RECURSIVE ConnectedEdges(_, _, _)
\* the loop of search_graph over the ids of the found nodes
ConnectedEdges(node_ids, contents, failing) ==
    IF Len(node_ids) = 0 THEN <<>>
    ELSE get_graph_edges(Some(node_ids[1]), QueryDefault, QueryDefault, 10,
                         contents, failing).edges
         \o get_graph_edges(QueryDefault, Some(node_ids[1]), QueryDefault, 10,
                            contents, failing).edges
         \o ConnectedEdges(Tail(node_ids), contents, failing)

search_graph(q, max_results, contents, failing) ==
    LET nodes == get_graph_nodes(QueryDefault, Some(q), max_results, contents,
                                 failing).nodes
        node_ids == [i \in DOMAIN nodes |-> nodes[i].id]
        unique_edges == UniqueEdges(ConnectedEdges(node_ids, contents, failing), {})
        new_node_ids == ({e.source : e \in Range(unique_edges)}
                         \cup {e.target : e \in Range(unique_edges)}) \ Range(node_ids)
        IsNew(node) == node.id \in new_node_ids
        additional_nodes ==
            IF new_node_ids = {} THEN <<>>
            ELSE Take(SelectSeq(get_graph_nodes(QueryDefault, QueryDefault, 100,
                                                contents, failing).nodes, IsNew), 20)
    IN  [success |-> TRUE, nodes |-> nodes \o additional_nodes, edges |-> unique_edges]

get_graph_stats(contents, failing) ==
    LET nodes == get_graph_nodes(QueryDefault, QueryDefault, 1000, contents,
                                 failing).nodes
        edges == get_graph_edges(QueryDefault, QueryDefault, QueryDefault, 2000,
                                 contents, failing).edges
        connected_nodes == {e.source : e \in Range(edges)} \cup {e.target : e \in Range(edges)}
    IN  [success |-> TRUE,
         stats |-> [total_nodes |-> Len(nodes), total_edges |-> Len(edges),
                    isolated_nodes_count |->
                        Cardinality({i \in DOMAIN nodes : nodes[i].id \notin connected_nodes})]]

----------------------------------------------------------------------------
(* Graph explorer: documents, requests and the specification SpecGraph      *)

MaxGraphReqs == 2

I_a1 == <<"a","1">>

I_a2 == <<"a","2">>

I_s1 == <<"s","1">>

I_d1 == <<"d","1">>

\* a session log of agent a1 in session s1
D_log == Doc(I_d1, None, Some(I_a1), None, Some(I_s1), None, None, None)

\* the same with the camel-case keys
D_logCamel == Doc(<<"d","2">>, Some(I_a2), None, Some(I_s1), None, None, None, None)

\* a session log without an agent name
D_session == Doc(<<"d","3">>, None, None, None, Some(I_s1), None, None, None)

D_msg == Doc(<<"m","1">>, None, None, None, None, Some(I_a1), Some(I_a2),
             Some(<<"h","i">>))

\* a message without a recipient
D_msgHalf == Doc(<<"m","2">>, None, None, None, None, Some(I_a1), None, None)

\* a message whose id is the id of the session log D_log
D_msgSameId == Doc(I_d1, None, None, None, None, Some(I_a2), Some(I_a1), None)

D_card == Doc(I_a1, None, None, None, None, None, None, Some(<<"c","a","r","d">>))

D_ctx == Doc(<<"c","1">>, None, Some(I_a1), None, None, None, None,
             Some(<<"C","o","n","t","e","x","t"," ","x">>))

D_journal == Doc(<<"j","1">>, None, Some(I_a1), None, None, None, None,
                 Some(<<"n","o","t","e">>))

D_mem == Doc(<<"e","1">>, None, Some(I_a2), None, None, None, None,
             Some(<<"m","e","m","o","r","y">>))

\* container contents the requests run over
GraphDbs ==
    { (S_agent_session_logs :> logs) @@ (S_system_inbox :> inbox)
      @@ (S_identity_cards :> <<D_card>>) @@ (S_working_contexts :> ctxs)
      @@ (S_journal_entries :> <<D_journal>>) @@ (S_memory_contexts :> mems) :
        logs  \in {<<>>, <<D_log, D_session>>, <<D_logCamel>>},
        inbox \in {<<>>, <<D_msg, D_msgHalf>>, <<D_msgSameId>>},
        ctxs  \in {<<>>, <<D_ctx>>},
        mems  \in {<<>>, <<D_mem>>} }

\* the containers whose query fails during a request
FailingSets == {{}, {S_agent_session_logs}, {S_system_inbox, S_memory_contexts}}

NodeTypeArgs == {None, Some(T_memory)}

EdgeTypeArgs == {None, Some(E_sends_to)}

InitGraph ==
    /\ IdleBesidesGraph
    /\ gdb \in GraphDbs
    /\ gresp = [endpoint |-> "none"]
    /\ greqs = 0

\* one graph request; repeats says that it repeats the request before it
GraphRespond(endpoint, params, failing, out) ==
    /\ greqs < MaxGraphReqs
    /\ greqs' = greqs + 1
    /\ gresp' = [endpoint |-> endpoint, params |-> params, failing |-> failing,
                 out |-> out,
                 repeats |-> /\ gresp.endpoint = endpoint
                             /\ gresp.params = params
                             /\ gresp.failing = failing]

GetGraphNodes ==
    \E node_type \in NodeTypeArgs, search \in {None, Some(I_a1)}, limit \in {1, 100},
       failing \in FailingSets :
        /\ GraphRespond("get_graph_nodes",
                        [node_type |-> node_type, search |-> search, limit |-> limit],
                        failing,
                        get_graph_nodes(node_type, search, limit, gdb, failing))
        /\ UNCHANGED <<gdb, besidesGraph>>

GetGraphEdges ==
    \E source_id \in {None, Some(I_d1)}, target_id \in {None, Some(I_a1)},
       edge_type \in EdgeTypeArgs, limit \in {1, 100}, failing \in FailingSets :
        /\ GraphRespond("get_graph_edges",
                        [source_id |-> source_id, target_id |-> target_id,
                         edge_type |-> edge_type, limit |-> limit],
                        failing,
                        get_graph_edges(source_id, target_id, edge_type, limit, gdb,
                                        failing))
        /\ UNCHANGED <<gdb, besidesGraph>>

GetFullGraph ==
    \E max_depth \in {1, 2}, center_node \in {None, Some(I_a1)}, failing \in FailingSets :
        /\ GraphRespond("get_full_graph",
                        [max_nodes |-> 50, max_depth |-> max_depth,
                         center_node |-> center_node],
                        failing,
                        get_full_graph(50, max_depth, center_node, gdb, failing))
        /\ UNCHANGED <<gdb, besidesGraph>>

SearchGraph ==
    \E failing \in FailingSets :
        /\ GraphRespond("search_graph", [q |-> I_a1, max_results |-> 20], failing,
                        search_graph(I_a1, 20, gdb, failing))
        /\ UNCHANGED <<gdb, besidesGraph>>

GetGraphStats ==
    \E failing \in FailingSets :
        /\ GraphRespond("get_graph_stats", [none |-> TRUE], failing,
                        get_graph_stats(gdb, failing))
        /\ UNCHANGED <<gdb, besidesGraph>>

NextGraph ==
    \/ GetGraphNodes
    \/ GetGraphEdges
    \/ GetFullGraph
    \/ SearchGraph
    \/ GetGraphStats

SpecGraph == InitGraph /\ [][NextGraph]_vars

----------------------------------------------------------------------------
(* Claims about the graph explorer (checked under SpecGraph)                *)

\* the documents the scan of a request reads
ScannedDocs(contents, failing) ==
    UNION {Range(contents[c]) : c \in Range(containers_to_check) \ failing}

AgentOf(d) == PyOr(d.agentName, d.agent_name)

SessionOf(d) == PyOr(d.sessionId, d.session_id)

\* the edges the claim ascribes to document d, as <<source, target, type>>
ClaimedEdges(d) ==
    {<<AgentOf(d).val, SessionOf(d).val, E_participates>> :
        x \in {1} \cap {IF TruthyStr(AgentOf(d)) /\ TruthyStr(SessionOf(d)) THEN 1 ELSE 0}}
    \cup
    {<<d.from.val, d.to.val, E_sends_to>> :
        x \in {1} \cap {IF TruthyStr(d.from) /\ TruthyStr(d.to) THEN 1 ELSE 0}}
    \cup
    {<<AgentOf(d).val, d.id, E_has_context>> :
        x \in {1} \cap {IF TruthyStr(AgentOf(d)) /\ Contains(Lower(DocStr(d)), T_context)
                        THEN 1 ELSE 0}}
    \cup
    {<<AgentOf(d).val, d.id, E_remembers>> :
        x \in {1} \cap {IF TruthyStr(AgentOf(d)) /\ Contains(Lower(DocStr(d)), T_memory)
                        THEN 1 ELSE 0}}

EdgeTriples(edges) == {<<e.source, e.target, e.type>> : e \in Range(edges)}

\* C11: a get_graph_edges request without filters, with a limit above the
\* number of edges, returns exactly the edges of the scanned documents: for
\* every scanned document a participates edge agent->session iff it has an
\* agent name and a session id, a sends_to edge from->to iff it has both,
\* a has_context (remembers) edge agent->id iff it has an agent name and its
\* text contains "context" ("memory"); and no other edge.
C11_EdgesFromFields ==
    (/\ gresp.endpoint = "get_graph_edges"
     /\ gresp.params = [source_id |-> None, target_id |-> None, edge_type |-> None,
                        limit |-> 100])
    => EdgeTriples(gresp.out.edges)
       = UNION {ClaimedEdges(d) : d \in ScannedDocs(gdb, gresp.failing)}

\* the node type the claim gives to a document of a container
ClaimedNodeType(container_name, d) ==
    IF container_name = S_agent_session_logs
    THEN (IF TruthyStr(AgentOf(d)) THEN T_agent ELSE T_session)
    ELSE IF container_name = S_system_inbox THEN T_message
    ELSE IF container_name = S_working_contexts THEN T_context
    ELSE IF container_name = S_memory_contexts THEN T_memory
    ELSE T_document

\* the documents that become nodes: the first scanned document of every id
FirstOfId(contents, failing, i, k) ==
    \A j \in 1..(i - 1) :
        containers_to_check[j] \in failing
        \/ \A d \in Range(contents[containers_to_check[j]]) :
              d.id # contents[containers_to_check[i]][k].id

\* C12: in the answer of an unfiltered get_graph_nodes request every scanned
\* document is a node of the type of its container: agent or session for
\* agent_session_logs (agent exactly with an agent name), message for
\* system_inbox, context for working_contexts, memory for memory_contexts,
\* document for identity_cards and journal_entries.
C12_NodeTypes ==
    (/\ gresp.endpoint = "get_graph_nodes"
     /\ gresp.params = [node_type |-> None, search |-> None, limit |-> 100])
    => \A i \in DOMAIN containers_to_check :
          LET name == containers_to_check[i] IN
          name \notin gresp.failing =>
             \A k \in DOMAIN gdb[name] :
                FirstOfId(gdb, gresp.failing, i, k) =>
                   \E n \in DOMAIN gresp.out.nodes :
                      /\ gresp.out.nodes[n].id = gdb[name][k].id
                      /\ gresp.out.nodes[n].type = ClaimedNodeType(name, gdb[name][k])

\* C13: a graph request writes nothing, neither to the containers nor to
\* the in-process cache nor to Redis, and a request that repeats the one
\* before it (same endpoint, same parameters, same container contents and
\* the same containers answering) returns the same nodes and edges.
C13_Step ==
    greqs' = greqs + 1 =>
        /\ gdb' = gdb
        /\ cache' = cache
        /\ redis' = redis
        /\ gresp'.repeats => gresp'.out = gresp.out

----------------------------------------------------------------------------
(* AsyncCosmosDBService.batch_query (app/services/async_cosmos_db.py)       *)
(*                                                                         *)
(* One call: a task per query, the tasks completing one at a time in any   *)
(* order and each failing or not, then the return after asyncio.gather.    *)

MaxBatch == 3

\* what the database answers to a query on a container
BatchData ==
    (S_agent_logs :> <<"log1", "log2">>) @@ (S_working_contexts :> <<"ctx1">>)
    @@ (S_journal_entries :> <<>>)

\* query_info dicts: 'container' and 'max_items' (100 when the key is absent)
QueryInfos ==
    {[container |-> c, max_items |-> m] :
        c \in {S_agent_logs, S_working_contexts}, m \in {None, Some(1)}}
    \cup {[container |-> S_journal_entries, max_items |-> None]}

\* query_info.get('max_items', 100)
MaxItemsOf(query_info) ==
    IF query_info.max_items.none THEN 100 ELSE query_info.max_items.val

\* query_items_async: the items up to max_items, or [] when anything raises
query_items_async(container_name, max_items, raises) ==
    IF raises THEN <<>> ELSE Take(BatchData[container_name], max_items)

\* asyncio.gather(*tasks, return_exceptions=True): the tasks' results in
\* the order of the tasks, whatever order they completed in
Gather_AsCompleted(results, completed) ==
    [k \in DOMAIN completed |-> results[completed[k]]]

Gather(results, completed) == results

\* clean_results: [] in place of an exception
CleanResults(results) ==
    [i \in DOMAIN results |-> IF results[i].exc THEN <<>> ELSE results[i].val]

InitBatch ==
    /\ IdleBesidesBatch
    /\ \E n \in 0..MaxBatch :
          \E queries \in [1..n -> QueryInfos] :
             batch = [phase |-> "called", queries |-> queries]

\* the loop that creates the tasks, up to the await on gather
BatchStart ==
    /\ batch.phase = "called"
    /\ batch' = [phase |-> "gathering", queries |-> batch.queries,
                 pending |-> DOMAIN batch.queries,
                 raised |-> {},
                 results |-> [i \in DOMAIN batch.queries |-> None],
                 completed |-> <<>>]
    /\ UNCHANGED besidesBatch

\* task i runs to its end; raises says that its query failed
TaskDone(i, raises) ==
    /\ batch.phase = "gathering"
    /\ i \in batch.pending
    /\ batch' = [batch EXCEPT
                    !.pending = @ \ {i},
                    !.raised = IF raises THEN @ \cup {i} ELSE @,
                    !.results[i] =
                        [exc |-> FALSE,
                         val |-> query_items_async(batch.queries[i].container,
                                                   MaxItemsOf(batch.queries[i]), raises)],
                    !.completed = Append(@, i)]
    /\ UNCHANGED besidesBatch

TaskCompletes == \E i \in 1..MaxBatch, raises \in BOOLEAN : TaskDone(i, raises)

\* gather returns once every task is done; batch_query returns clean_results
BatchReturn ==
    /\ batch.phase = "gathering"
    /\ batch.pending = {}
    /\ batch' = [phase |-> "returned", queries |-> batch.queries,
                 raised |-> batch.raised, completed |-> batch.completed,
                 out |-> CleanResults(Gather(batch.results, batch.completed))]
    /\ UNCHANGED besidesBatch

NextBatch ==
    \/ BatchStart
    \/ TaskCompletes
    \/ BatchReturn

SpecBatch == InitBatch /\ [][NextBatch]_vars

\* C14: batch_query returns one list per query, in the order of the
\* queries whatever order the tasks completed in: the query's items (at most
\* max_items) for a query that succeeded and [] for one that failed; the
\* call always returns.
C14_BatchInOrder ==
    batch.phase = "returned" =>
        /\ DOMAIN batch.out = DOMAIN batch.queries
        /\ \A i \in DOMAIN batch.queries :
              batch.out[i] = IF i \in batch.raised THEN <<>>
                             ELSE Take(BatchData[batch.queries[i].container],
                                       MaxItemsOf(batch.queries[i]))

\* three queries completed in an order other than the input order, the
\* second one failed and the others returned items
C14_Witness ==
    /\ batch.phase = "returned"
    /\ batch.completed = <<3, 1, 2>>
    /\ batch.raised = {2}
    /\ batch.out[1] # <<>>
    /\ batch.out[3] # <<>>
    /\ batch.out[1] # batch.out[3]

----------------------------------------------------------------------------
(* The center_node filter of get_full_graph on its own (SpecBfs): the      *)
(* fetched node and edge lists are drawn, then the filter is applied.      *)

MaxBfsEdges == 3

BfsIds == {<<"a">>, <<"b">>, <<"c">>, <<"d">>, <<"e">>}

\* fetched nodes: one per id, and one node no edge touches
BfsNodes ==
    << [id |-> <<"a">>, type |-> T_agent, size |-> 1000],
       [id |-> <<"b">>, type |-> T_session, size |-> 1000],
       [id |-> <<"c">>, type |-> T_message, size |-> 1000],
       [id |-> <<"d">>, type |-> T_context, size |-> 1000],
       [id |-> <<"e">>, type |-> T_document, size |-> 1000],
       [id |-> <<"f">>, type |-> T_document, size |-> 1000] >>

\* source and target of the fetched edges: a chain a-b-c-d-e written in both
\* directions, a loop and a shortcut
BfsEnds ==
    { <<<<"a">>, <<"b">>>>, <<<<"c">>, <<"b">>>>, <<<<"c">>, <<"d">>>>,
      <<<<"e">>, <<"d">>>>, <<<<"a">>, <<"a">>>>, <<<<"a">>, <<"d">>>> }

BfsEdgeLists ==
    UNION { [1..n -> {GraphEdge(0, p[1], p[2], E_sends_to) : p \in BfsEnds}] :
            n \in 0..MaxBfsEdges }

InitBfs ==
    /\ IdleBesidesBfs
    /\ \E edges \in BfsEdgeLists, center_node \in {Some(<<"a">>), Some(<<"c">>), Some(<<"x">>)},
          max_depth \in 1..3 :
          bfs = [phase |-> "fetched", nodes |-> BfsNodes, edges |-> edges,
                 center_node |-> center_node, max_depth |-> max_depth]

ApplyBfsFilter ==
    /\ bfs.phase = "fetched"
    /\ bfs' = [phase |-> "filtered", nodes |-> bfs.nodes, edges |-> bfs.edges,
               center_node |-> bfs.center_node, max_depth |-> bfs.max_depth,
               out |-> BfsFilter(bfs.nodes, bfs.edges, bfs.center_node, bfs.max_depth)]
    /\ UNCHANGED besidesBfs

NextBfs == ApplyBfsFilter

SpecBfs == InitBfs /\ [][NextBfs]_vars

RECURSIVE WithinHops(_, _, _)
\* the ids at most k undirected hops from center over the edge list
WithinHops(edges, center, k) ==
    IF k = 0 THEN {center}
    ELSE LET near == WithinHops(edges, center, k - 1)
         IN  near \cup {e.target : e \in {x \in Range(edges) : x.source \in near}}
                  \cup {e.source : e \in {x \in Range(edges) : x.target \in near}}

\* C15: with a center_node the filter keeps exactly the fetched nodes
\* whose id is at most max_depth undirected hops from center_node over the
\* fetched edges, and exactly the fetched edges with both ends that near,
\* both in their fetched order.
C15_BoundedBfs ==
    bfs.phase = "filtered" =>
        LET near == WithinHops(bfs.edges, bfs.center_node.val, bfs.max_depth)
            NodeNear(node) == node.id \in near
            EdgeNear(edge) == edge.source \in near /\ edge.target \in near
        IN  /\ bfs.out.nodes = SelectSeq(bfs.nodes, NodeNear)
            /\ bfs.out.edges = SelectSeq(bfs.edges, EdgeNear)

\* the search from a with max_depth 2 over the chain a-b-c-d: it keeps a,
\* b and c and drops d, and with it the edge c-d
C15_Witness ==
    /\ bfs.phase = "filtered"
    /\ bfs.center_node = Some(<<"a">>)
    /\ bfs.max_depth = 2
    /\ {bfs.edges[i].target : i \in DOMAIN bfs.edges} = {<<"b">>, <<"d">>}
    /\ {bfs.edges[i].source : i \in DOMAIN bfs.edges} = {<<"a">>, <<"c">>}
    /\ Len(bfs.edges) = 3
    /\ {bfs.out.nodes[i].id : i \in DOMAIN bfs.out.nodes} = {<<"a">>, <<"b">>, <<"c">>}
    /\ Len(bfs.out.edges) = 2

----------------------------------------------------------------------------
(* Claims about get_full_graph as a whole (checked under SpecGraph)         *)

\* id and type of every node, in order
NodeIdTypes(nodes) == [i \in DOMAIN nodes |-> <<nodes[i].id, nodes[i].type>>]

\* C16: without center_node the nodes of get_full_graph are the nodes (id
\* and type, in order) that get_graph_nodes returns for limit = max_nodes
\* with no node_type and no search, and its edges are the edges that
\* get_graph_edges returns for limit = 2 * max_nodes with no filter, over
\* the same contents.
C16_FullGraphIsListing ==
    (/\ gresp.endpoint = "get_full_graph"
     /\ gresp.params.center_node = None)
    => /\ NodeIdTypes(gresp.out.nodes)
          = NodeIdTypes(get_graph_nodes(None, None, gresp.params.max_nodes, gdb,
                                        gresp.failing).nodes)
       /\ gresp.out.edges
          = get_graph_edges(None, None, None, 2 * gresp.params.max_nodes, gdb,
                            gresp.failing).edges

----------------------------------------------------------------------------
(* cached_result (app/core/cache.py)                                        *)
(*                                                                         *)
(* One wrapped function and one cache key.  A call says which of its Redis *)
(* operations fail and which executions of the wrapped function raise.     *)

\* what the wrapped function returns when it does not raise
WrapValues == {"r1", "r2"}

\* the k-th execution of func within one call: done, raising or returning
Execute(k, raises, val) ==
    [execs |-> k, raised |-> raises[k], ret |-> IF raises[k] THEN None ELSE Some(val)]

\* wrapper(*args, **kwargs): the executions of func, what the caller gets
\* and the Redis entry afterwards
cached_result(enabled, store, readFails, writeFails, raises, val) ==
    LET direct(k) == [call |-> Execute(k, raises, val), store |-> store, hit |-> FALSE]
    IN  IF ~enabled THEN direct(1)
        ELSE IF readFails THEN direct(1)
        ELSE IF ~store.none
        THEN [call |-> [execs |-> 0, raised |-> FALSE,
                        ret |-> Some(JsonLoads(store.val))],
              store |-> store, hit |-> TRUE]
        ELSE IF raises[1] THEN direct(2)
        ELSE IF writeFails THEN direct(2)
        ELSE [call |-> Execute(1, raises, val), store |-> Some(JsonDumps(val)),
              hit |-> FALSE]

InitWrap ==
    /\ IdleBesidesWrap
    /\ \E enabled \in BOOLEAN :
          wrap = [phase |-> "ready", enabled |-> enabled, store |-> None]

CallWrapped ==
    \E readFails \in BOOLEAN, writeFails \in BOOLEAN, raises \in [1..2 -> BOOLEAN],
       val \in WrapValues :
        LET r == cached_result(wrap.enabled, wrap.store, readFails, writeFails, raises,
                               val)
        IN  /\ wrap.phase # "none"
            /\ wrap' = [phase |-> "called", enabled |-> wrap.enabled, store |-> r.store,
                        readFails |-> readFails, writeFails |-> writeFails,
                        raises |-> raises, hit |-> r.hit, call |-> r.call]
            /\ UNCHANGED besidesWrap

\* the entry's ttl runs out
WrapExpire ==
    /\ wrap.phase = "called"
    /\ ~wrap.store.none
    /\ wrap' = [wrap EXCEPT !.store = None, !.phase = "ready"]
    /\ UNCHANGED besidesWrap

NextWrap ==
    \/ CallWrapped
    \/ WrapExpire

SpecWrap == InitWrap /\ [][NextWrap]_vars

\* C17: a call executes the wrapped function zero times on a cache hit and
\* exactly once otherwise, whether Redis is disabled, the cache read fails
\* or the cache write fails; when that one execution raises, the caller
\* gets the exception.
C17_ExecutedOnce ==
    wrap.phase = "called" =>
        IF wrap.hit THEN wrap.call.execs = 0
        ELSE /\ wrap.call.execs = 1
             /\ wrap.raises[1] => wrap.call.raised

----------------------------------------------------------------------------
(* SpecAsync: AsyncCacheService and the async_cached decorator             *)
(*                                                                         *)
(* One service object and its Redis server.  The server is reachable or    *)
(* not; besides that, a call says which of its Redis commands raise.       *)

SvcTickStep == 15

SvcMaxTime == 60

MaxSvcCalls == 3

S_agent_health == <<"a","g","e","n","t","_","h","e","a","l","t","h">>

S_get_agent_health == <<"g","e","t","_","a","g","e","n","t","_","h","e","a","l","t","h">>

\* f"{key_prefix}:{func.__name__}:{hash(...)}" of get_agent_health
AgentHealthKey == S_agent_health \o <<":">> \o S_get_agent_health \o <<":">> \o IntStr(0)

\* @async_cached(ttl=30, key_prefix="agent_health")
AgentHealthTtl == 30

\* the wrapped functions: cache key -> ttl of the decorator
SvcFuncs == (AgentsOverviewKey :> AgentsOverviewTtl) @@ (AgentHealthKey :> AgentHealthTtl)

\* what a wrapped function returns when it does not raise
SvcValues == {"r1", "r2"}

\* the prefixes p of the patterns "p*" given to clear_pattern
SvcPrefixes == {S_agents \o <<":">>, AgentHealthKey, S_cosmos \o <<":">>}

\* a value returned, or an exception on its way out
Returned(x) == [raised |-> FALSE, ret |-> x]

Raised == [raised |-> TRUE]

\* try: ... except Exception: the handler's value replaces the exception
TryExcept(attempt, handled) == IF attempt.raised THEN Returned(handled) ELSE attempt

\* a Redis command on a connection: raises when the server is unreachable
\* or the command fails
CommandRaises(up, fails) == ~up \/ fails

\* AsyncCacheService.get(key), without the except clause
async_cache_get_Raising(key, conn, up, fails, r, t) ==
    IF ~async_get_redis(conn, up) THEN Returned(None)
    ELSE IF CommandRaises(up, fails) THEN Raised
    ELSE IF RedisLive(r, key, t) THEN Returned(Some(JsonLoads(r[key].value)))
    ELSE Returned(None)

\* AsyncCacheService.get(key): the decoded value, None on a miss, without a
\* connection and on any error
async_cache_get(key, conn, up, fails, r, t) ==
    TryExcept(
        IF ~async_get_redis(conn, up) THEN Returned(None)
        ELSE IF CommandRaises(up, fails) THEN Raised
        ELSE IF RedisLive(r, key, t) THEN Returned(Some(JsonLoads(r[key].value)))
        ELSE Returned(None),
        None)

\* AsyncCacheService.set(key, value, ttl): True after SETEX, False without a
\* connection and on any error
async_cache_set_result(conn, up, fails) ==
    TryExcept(
        IF ~async_get_redis(conn, up) THEN Returned(FALSE)
        ELSE IF CommandRaises(up, fails) THEN Raised
        ELSE Returned(TRUE),
        FALSE)

\* AsyncCacheService.delete(key): True after DEL, False without a connection
\* and on any error
async_cache_delete(conn, up, fails) ==
    TryExcept(
        IF ~async_get_redis(conn, up) THEN Returned(FALSE)
        ELSE IF CommandRaises(up, fails) THEN Raised
        ELSE Returned(TRUE),
        FALSE)

\* redis.keys("p*"): the live keys that start with p
AsyncKeys(r, prefix, t) == {k \in DOMAIN r : RedisLive(r, k, t) /\ StartsWith(k, prefix)}

\* AsyncCacheService.clear_pattern(pattern): the number of keys deleted, 0
\* without a connection and on any error
async_cache_clear_pattern(prefix, conn, up, fails, r, t) ==
    TryExcept(
        IF ~async_get_redis(conn, up) THEN Returned(0)
        ELSE IF CommandRaises(up, fails) THEN Raised
        ELSE Returned(Cardinality(AsyncKeys(r, prefix, t))),
        0)

\* the Redis server after a command that returned ok
Without(r, keys) == [k \in DOMAIN r \ keys |-> r[k]]

\* wrapper(*args, **kwargs) of async_cached: how often func ran, what the
\* caller gets and the Redis server afterwards
async_cached(key, ttl, conn, up, getFails, setFails, funcRaises, val, r, t) ==
    LET cached == async_cache_get(key, conn, up, getFails, r, t)
        conn1 == async_get_redis(conn, up)
        stored == async_cache_set_result(conn1, up, setFails)
    IN  IF cached.raised
        THEN [execs |-> 0, raised |-> TRUE, ret |-> None, redis |-> r]
        ELSE IF cached.ret # None
        THEN [execs |-> 0, raised |-> FALSE, ret |-> cached.ret, redis |-> r]
        ELSE IF funcRaises
        THEN [execs |-> 1, raised |-> TRUE, ret |-> None, redis |-> r]
        ELSE [execs |-> 1, raised |-> stored.raised, ret |-> Some(val),
              redis |-> IF ~stored.raised /\ stored.ret
                        THEN async_cache_set(key, val, ttl, conn1, up, r, t)
                        ELSE r]

InitAsync ==
    /\ IdleBesidesSvc
    /\ \E up \in BOOLEAN :
          svc = [phase |-> "ready", redis |-> <<>>, conn |-> FALSE, up |-> up, now |-> 0,
                 calls |-> 0]

\* the service after a call: the connection is kept once it was made
SvcAfter(r, last) ==
    [phase |-> "called", redis |-> r, conn |-> async_get_redis(svc.conn, svc.up),
     up |-> svc.up, now |-> svc.now, calls |-> svc.calls + 1,
     last |-> last @@ [up |-> svc.up, conn |-> svc.conn, stored |-> svc.redis]]

SvcCanCall == svc.phase # "none" /\ svc.calls < MaxSvcCalls

SvcGet ==
    \E key \in DOMAIN SvcFuncs, fails \in BOOLEAN :
        LET g == async_cache_get(key, svc.conn, svc.up, fails, svc.redis, svc.now)
        IN  /\ SvcCanCall
            /\ svc' = SvcAfter(svc.redis, [op |-> "get", key |-> key, fails |-> fails,
                                           out |-> g])
            /\ UNCHANGED besidesSvc

SvcSet ==
    \E key \in DOMAIN SvcFuncs, val \in SvcValues, fails \in BOOLEAN :
        LET s == async_cache_set_result(svc.conn, svc.up, fails)
        IN  /\ SvcCanCall
            /\ svc' = SvcAfter(IF ~s.raised /\ s.ret
                               THEN async_cache_set(key, val, SvcFuncs[key], svc.conn,
                                                    svc.up, svc.redis, svc.now)
                               ELSE svc.redis,
                               [op |-> "set", key |-> key, fails |-> fails, out |-> s])
            /\ UNCHANGED besidesSvc

SvcDelete ==
    \E key \in DOMAIN SvcFuncs, fails \in BOOLEAN :
        LET d == async_cache_delete(svc.conn, svc.up, fails)
        IN  /\ SvcCanCall
            /\ svc' = SvcAfter(IF ~d.raised /\ d.ret THEN Without(svc.redis, {key})
                               ELSE svc.redis,
                               [op |-> "delete", key |-> key, fails |-> fails, out |-> d])
            /\ UNCHANGED besidesSvc

SvcClearPattern ==
    \E prefix \in SvcPrefixes, fails \in BOOLEAN :
        LET c == async_cache_clear_pattern(prefix, svc.conn, svc.up, fails, svc.redis,
                                           svc.now)
            ok == async_get_redis(svc.conn, svc.up) /\ ~CommandRaises(svc.up, fails)
        IN  /\ SvcCanCall
            /\ svc' = SvcAfter(IF ok THEN Without(svc.redis,
                                                  AsyncKeys(svc.redis, prefix, svc.now))
                               ELSE svc.redis,
                               [op |-> "clear_pattern", key |-> prefix, fails |-> fails,
                                out |-> c])
            /\ UNCHANGED besidesSvc

\* a request to an endpoint decorated with async_cached
CallAsyncCached ==
    \E key \in DOMAIN SvcFuncs, val \in SvcValues, getFails \in BOOLEAN,
       setFails \in BOOLEAN, funcRaises \in BOOLEAN :
        LET w == async_cached(key, SvcFuncs[key], svc.conn, svc.up, getFails, setFails,
                              funcRaises, val, svc.redis, svc.now)
        IN  /\ SvcCanCall
            /\ svc' = SvcAfter(w.redis,
                               [op |-> "async_cached", key |-> key, fails |-> getFails,
                                setFails |-> setFails, funcRaises |-> funcRaises,
                                val |-> val,
                                out |-> [raised |-> w.raised, ret |-> w.ret],
                                execs |-> w.execs])
            /\ UNCHANGED besidesSvc

\* the Redis server goes down or comes back
SvcRedisFlip ==
    /\ svc.phase # "none"
    /\ svc' = [svc EXCEPT !.up = ~svc.up]
    /\ UNCHANGED besidesSvc

\* the clock advances; Redis drops the keys whose time has come
SvcTick ==
    /\ svc.phase # "none"
    /\ svc.now + SvcTickStep <= SvcMaxTime
    /\ svc' = [svc EXCEPT !.now = svc.now + SvcTickStep,
                          !.redis = Without(svc.redis,
                                        {k \in DOMAIN svc.redis :
                                            ~RedisLive(svc.redis, k,
                                                       svc.now + SvcTickStep)})]
    /\ UNCHANGED besidesSvc

NextAsync ==
    \/ SvcGet
    \/ SvcSet
    \/ SvcDelete
    \/ SvcClearPattern
    \/ CallAsyncCached
    \/ SvcRedisFlip
    \/ SvcTick

SpecAsync == InitAsync /\ [][NextAsync]_vars

\* the last call met an unreachable Redis server or a Redis command that raised
SvcCallFailed == svc.phase = "called" /\ CommandRaises(svc.last.up, svc.last.fails)

\* C18: AsyncCacheService fails open.  When Redis is unreachable or the
\* Redis command of the call raises, get returns None, set and delete
\* return False, clear_pattern returns 0 and none of them raises; a function
\* wrapped by async_cached is then executed by the call, and the caller gets
\* what that execution returned (or the exception it raised), also when the
\* write of the result fails.
C18_FailsOpen ==
    /\ SvcCallFailed /\ svc.last.op = "get" =>
            ~svc.last.out.raised /\ svc.last.out.ret = None
    /\ SvcCallFailed /\ svc.last.op \in {"set", "delete"} =>
            ~svc.last.out.raised /\ svc.last.out.ret = FALSE
    /\ SvcCallFailed /\ svc.last.op = "clear_pattern" =>
            ~svc.last.out.raised /\ svc.last.out.ret = 0
    /\ svc.phase = "called" /\ svc.last.op = "async_cached"
       /\ (SvcCallFailed \/ (svc.last.setFails /\ svc.last.execs = 1)) =>
            /\ svc.last.execs = 1
            /\ svc.last.out.raised = svc.last.funcRaises
            /\ ~svc.last.funcRaises => svc.last.out.ret = Some(svc.last.val)

\* a decorated endpoint is called while Redis, which holds a live entry of
\* another value under the endpoint's key, is unreachable: the function runs
\* and the caller gets the new value
C18_Witness ==
    /\ svc.phase = "called"
    /\ svc.last.op = "async_cached"
    /\ ~svc.last.up
    /\ svc.last.conn
    /\ RedisLive(svc.last.stored, svc.last.key, svc.now)
    /\ JsonLoads(svc.last.stored[svc.last.key].value) # svc.last.val
    /\ svc.last.execs = 1
    /\ svc.last.out = [raised |-> FALSE, ret |-> Some(svc.last.val)]

----------------------------------------------------------------------------
(* SpecMem: the response caches of get_system_health and of the legacy     *)
(* get_agents_overview (in memory) and of the async get_agents_overview    *)
(* (Redis, through async_cached)                                           *)
(*                                                                         *)
(* A request names the containers whose queries fail while it runs.  The   *)
(* databases drawn have at most five containers, so get_system_health      *)
(* probes every one of them, and at most one agent.                        *)

MemTickStep == 15

MemMaxTime == 75

MaxMemReqs == 3

\* live_data.py: CACHE_TTL = 60
LIVE_CACHE_TTL == 60

\* agents.py: AGENT_CACHE_TTL = 30
AGENT_CACHE_TTL == 30

S_logs == <<"l","o","g","s">>

S_system_health == <<"s","y","s","t","e","m","_","h","e","a","l","t","h">>

S_agents_status == <<"a","g","e","n","t","s","_","s","t","a","t","u","s">>

\* round(x, 2) of the fraction n / d, in hundredths
Round2(n, d) == (200 * n + d) \div (2 * d)

\* now - cached_time <= ttl
MemFresh_Inclusive(entry, t, ttl) == t - entry.cached_time <= ttl

\* now - cached_time < ttl
MemFresh(entry, t, ttl) == t - entry.cached_time < ttl

\* HTTPException(status_code=500) of the outer except clause
MemError(calls) == [status |-> 500, dbcalls |-> calls, failed |-> TRUE]

\* 'excellent' ... 'poor' from healthy_containers / sample_size * 100
SystemStatus(healthy, size) ==
    IF size = 0 THEN "poor"
    ELSE IF healthy * 100 >= 90 * size THEN "excellent"
    ELSE IF healthy * 100 >= 70 * size THEN "good"
    ELSE IF healthy * 100 >= 50 * size THEN "fair"
    ELSE "poor"

\* the body of get_system_health after the cache check: list the
\* containers, probe each one, count the recent activity; d is the database,
\* failing the containers whose queries raise
SystemHealthResult(d, listFails, failing) ==
    LET containers == d.containers
        sample_size == Min(5, Len(containers))
        healthy == {i \in DOMAIN containers : containers[i] \notin failing}
        healthy_containers == Cardinality(healthy)
        countFails == S_logs \in failing \/ S_logs \notin Range(containers)
    IN  IF listFails THEN MemError(1)
        ELSE [status |-> 200,
              dbcalls |-> 1 + Len(containers) + 1,
              failed |-> healthy_containers < Len(containers) \/ countFails,
              data |-> [success |-> TRUE,
                        system_status |-> SystemStatus(healthy_containers, sample_size),
                        health_score |-> IF sample_size > 0
                                         THEN Round2(healthy_containers * 100,
                                                     sample_size)
                                         ELSE 0,
                        total_containers |-> Len(containers),
                        healthy_containers |-> healthy_containers,
                        unhealthy_containers |-> Len(containers) - healthy_containers,
                        recent_activity_count |-> IF countFails THEN 0 ELSE d.activity,
                        container_health |->
                            [c \in Range(containers) |->
                                IF c \in failing THEN "unhealthy" ELSE "healthy"]]]

\* agents.py: containers_to_check of get_agents_overview
agent_containers_to_check ==
    <<S_agent_logs, S_agent_session_logs, S_working_contexts, S_memory_contexts,
      S_journal_entries, S_agent_status>>

\* the agent names found by the first loop: a container whose query raises
\* is skipped
AgentNames(d, failing) ==
    UNION {d.names[c] : c \in Range(agent_containers_to_check) \ failing}

\* agent_info of one agent: each of the four detail queries that raises
\* leaves its fields at their defaults
AgentInfo(d, agent_name, failing) ==
    LET logsOk == S_agent_logs \notin failing /\ ~d.log.none
        todosOk == S_working_contexts \notin failing
        todos_count == IF todosOk THEN d.todos ELSE 0
    IN  [agent_name |-> agent_name,
         current_activity |-> IF logsOk THEN d.log.val.action
                              ELSE "No recent activity",
         current_task |-> IF todos_count > 0 THEN d.task ELSE "No active task",
         todos_count |-> todos_count,
         completed_tasks_count |->
            IF S_agent_session_logs \in failing THEN 0 ELSE d.completed,
         last_seen |-> IF logsOk THEN Some(d.log.val.ts) ELSE None,
         recent_messages |-> IF S_journal_entries \in failing THEN <<>> ELSE d.entries,
         status |-> IF logsOk THEN d.log.val.status ELSE "unknown"]

\* the placeholder row returned when no agent name was found
NoAgentsFound ==
    [agent_name |-> "No agents found in recent activity",
     current_activity |-> "Check agent_logs, working_contexts containers",
     current_task |-> "No recent agent activity detected",
     todos_count |-> 0, completed_tasks_count |-> 0, last_seen |-> None,
     recent_messages |-> <<>>, status |-> "unknown"]

\* the number of queries the detail loop issues for one agent
AgentDetailCalls(d, failing) ==
    4 + (IF S_working_contexts \notin failing /\ d.todos > 0 THEN 1 ELSE 0)

\* the body of the legacy get_agents_overview after the cache check
AgentsOverviewResult(d, failing) ==
    LET agent_names == AgentNames(d, failing)
        agents_info ==
            IF agent_names = {} THEN <<NoAgentsFound>>
            ELSE <<AgentInfo(d, CHOOSE n \in agent_names : TRUE, failing)>>
        Count(st) == Cardinality({i \in DOMAIN agents_info : agents_info[i].status = st})
    IN  [status |-> 200,
         dbcalls |-> Len(agent_containers_to_check)
                     + (IF agent_names = {} THEN 0 ELSE AgentDetailCalls(d, failing)),
         failed |-> failing \cap Range(agent_containers_to_check) # {},
         data |-> [success |-> TRUE,
                   agents |-> agents_info,
                   summary |-> [total_agents |-> Len(agents_info),
                                active_agents |-> Count("active"),
                                idle_agents |-> Count("idle"),
                                offline_agents |-> Count("offline")]]]

\* the cache check in front of both endpoints and the store behind them:
\* entry is _cache[cache_key] (None when the key is absent), t the time of
\* the request, dur the time the computation takes
ttl_cached(entry, t, ttl, computed, dur) ==
    IF ~entry.none /\ MemFresh(entry.val, t, ttl)
    THEN [status |-> 200, data |-> entry.val.data, dbcalls |-> 0, failed |-> FALSE,
          hit |-> TRUE, entry |-> entry, ends |-> t]
    ELSE IF computed.status = 500
    THEN [status |-> 500, dbcalls |-> computed.dbcalls, failed |-> TRUE, hit |-> FALSE,
          entry |-> entry, ends |-> t + dur]
    ELSE [status |-> 200, data |-> computed.data, dbcalls |-> computed.dbcalls,
          failed |-> computed.failed, hit |-> FALSE,
          entry |-> Some([data |-> computed.data, cached_time |-> t + dur]),
          ends |-> t + dur]

\* get_system_health(db)
get_system_health(entry, t, d, listFails, failing, dur) ==
    ttl_cached(entry, t, LIVE_CACHE_TTL, SystemHealthResult(d, listFails, failing), dur)

\* agents.py get_agents_overview(db)
legacy_get_agents_overview(entry, t, d, failing, dur) ==
    ttl_cached(entry, t, AGENT_CACHE_TTL, AgentsOverviewResult(d, failing), dur)

\* get_agent_details_async: as the legacy detail loop, but current_task is
\* never filled in; query_items_async gives [] for a query that raises
AsyncAgentInfo(d, agent_name, failing) ==
    [AgentInfo(d, agent_name, failing) EXCEPT !.current_task = "No active task"]

\* agents_async.py get_agents_overview(cosmos), the wrapped function
AsyncAgentsOverviewResult(d, failing) ==
    LET agent_names == AgentNames(d, failing)
        agents_info == <<AsyncAgentInfo(d, CHOOSE n \in agent_names : TRUE, failing)>>
        Count(st) == Cardinality({i \in DOMAIN agents_info : agents_info[i].status = st})
    IN  [status |-> 200,
         dbcalls |-> Len(agent_containers_to_check)
                     + (IF agent_names = {} THEN 0 ELSE 4),
         failed |-> failing \cap Range(agent_containers_to_check) # {},
         data |-> IF agent_names = {}
                  THEN [success |-> TRUE,
                        agents |-> <<NoAgentsFound>>,
                        summary |-> [total_agents |-> 0, active_agents |-> 0,
                                     idle_agents |-> 0, offline_agents |-> 0]]
                  ELSE [success |-> TRUE,
                        agents |-> agents_info,
                        summary |-> [total_agents |-> Len(agents_info),
                                     active_agents |-> Count("active"),
                                     idle_agents |-> Count("idle"),
                                     offline_agents |-> Count("offline")]]]

\* the decorated get_agents_overview with Redis reachable: r is the Redis
\* server, t the time of the request
async_get_agents_overview(r, t, d, failing) ==
    LET computed == AsyncAgentsOverviewResult(d, failing)
        w == async_cached(AgentsOverviewKey, AgentsOverviewTtl, TRUE, TRUE, FALSE, FALSE,
                          FALSE, computed.data, r, t)
    IN  [status |-> 200, data |-> w.ret.val,
         dbcalls |-> IF w.execs = 0 THEN 0 ELSE computed.dbcalls,
         failed |-> w.execs > 0 /\ computed.failed, hit |-> w.execs = 0,
         redis |-> w.redis, ends |-> t]

\* the databases drawn
MemDbs ==
    { [containers |-> <<>>, activity |-> 0,
       names |-> [c \in Range(agent_containers_to_check) |-> {}],
       log |-> None, todos |-> 0, task |-> "", completed |-> 0, entries |-> <<>>],
      [containers |-> <<S_logs, S_agent_logs>>, activity |-> 2,
       names |-> [c \in Range(agent_containers_to_check) |->
                    IF c \in {S_agent_logs, S_working_contexts} THEN {"alpha"} ELSE {}],
       log |-> Some([action |-> "deploy", ts |-> 7, status |-> "active"]),
       todos |-> 2, task |-> "fix", completed |-> 1, entries |-> <<"e1">>] }

\* the containers whose queries raise during one request
MemFailingSets == {{}, {S_logs}, {S_agent_logs}, {S_agent_logs, S_working_contexts}}

\* how long the computation of a response takes
MemDurations == {0, MemTickStep}

InitMem ==
    /\ IdleBesidesMem
    /\ \E d \in MemDbs :
          mem = [phase |-> "ready", now |-> 0, db |-> d, reqs |-> 0,
                 cache |-> (S_system_health :> None) @@ (S_agents_status :> None),
                 redis |-> <<>>]

\* the state after a request: the clock has moved by the time it took
MemAfter(key, r, inputs) ==
    [phase |-> "called", now |-> r.ends, db |-> mem.db, reqs |-> mem.reqs + 1,
     cache |-> [mem.cache EXCEPT ![key] = r.entry], redis |-> mem.redis,
     last |-> [key |-> key, at |-> mem.now, db |-> mem.db, before |-> mem.cache[key],
               out |-> [f \in DOMAIN r \ {"entry"} |-> r[f]]]
              @@ inputs]

MemCanCall(dur) ==
    /\ mem.phase # "none"
    /\ mem.reqs < MaxMemReqs
    /\ mem.now + dur <= MemMaxTime

GetSystemHealth ==
    \E listFails \in BOOLEAN, failing \in MemFailingSets, dur \in MemDurations :
        /\ MemCanCall(dur)
        /\ mem' = MemAfter(S_system_health,
                           get_system_health(mem.cache[S_system_health], mem.now, mem.db,
                                             listFails, failing, dur),
                           [ttl |-> LIVE_CACHE_TTL, failing |-> failing,
                            listFails |-> listFails])
        /\ UNCHANGED besidesMem

GetAgentsOverviewLegacy ==
    \E failing \in MemFailingSets, dur \in MemDurations :
        /\ MemCanCall(dur)
        /\ mem' = MemAfter(S_agents_status,
                           legacy_get_agents_overview(mem.cache[S_agents_status], mem.now,
                                                      mem.db, failing, dur),
                           [ttl |-> AGENT_CACHE_TTL, failing |-> failing,
                            listFails |-> FALSE])
        /\ UNCHANGED besidesMem

\* the entry Redis holds under a key, expired or not
RedisEntry(r, key) == IF key \in DOMAIN r THEN Some(r[key]) ELSE None

GetAgentsOverviewAsync ==
    \E failing \in MemFailingSets :
        LET r == async_get_agents_overview(mem.redis, mem.now, mem.db, failing)
        IN  /\ MemCanCall(0)
            /\ mem' = [phase |-> "called", now |-> mem.now, db |-> mem.db,
                       reqs |-> mem.reqs + 1, cache |-> mem.cache, redis |-> r.redis,
                       last |-> [key |-> AgentsOverviewKey, at |-> mem.now,
                                 db |-> mem.db,
                                 before |-> RedisEntry(mem.redis, AgentsOverviewKey),
                                 out |-> [f \in DOMAIN r \ {"redis"} |-> r[f]],
                                 ttl |-> AgentsOverviewTtl, failing |-> failing,
                                 listFails |-> FALSE]]
            /\ UNCHANGED besidesMem

\* other writers change the database
MemDbChange ==
    /\ mem.phase # "none"
    /\ \E d \in MemDbs \ {mem.db} : mem' = [mem EXCEPT !.db = d]
    /\ UNCHANGED besidesMem

\* the clock advances
MemTick ==
    /\ mem.phase # "none"
    /\ mem.now + MemTickStep <= MemMaxTime
    /\ mem' = [mem EXCEPT !.now = mem.now + MemTickStep]
    /\ UNCHANGED besidesMem

NextMem ==
    \/ GetSystemHealth
    \/ GetAgentsOverviewLegacy
    \/ GetAgentsOverviewAsync
    \/ MemDbChange
    \/ MemTick

SpecMem == InitMem /\ [][NextMem]_vars

\* what the body of the endpoint of the last request computes from the
\* database as it was at the request
MemComputed ==
    IF mem.last.key = S_system_health
    THEN SystemHealthResult(mem.last.db, mem.last.listFails, mem.last.failing)
    ELSE AgentsOverviewResult(mem.last.db, mem.last.failing)

\* seconds between the store of the response found in the cache and the
\* last request
MemAge == mem.last.at - mem.last.before.val.cached_time

MemStored(key) ==
    IF key \in DOMAIN mem.cache THEN mem.cache[key] ELSE RedisEntry(mem.redis, key)

\* C20: a response computed while a database query failed is not stored:
\* when a query issued for get_system_health, the legacy get_agents_overview
\* or the async get_agents_overview raises, the request leaves the cache
\* entry of the endpoint as it found it.
C20_DegradedNotCached ==
    mem.phase = "called" /\ mem.last.out.failed =>
        MemStored(mem.last.key) = mem.last.before

----------------------------------------------------------------------------
(* SpecHealth: the async get_agent_health and the get_agents_overview it   *)
(* calls, both decorated with async_cached                                 *)
(*                                                                         *)
(* Both Redis entries are annotated with the time at which the agent data  *)
(* they derive from was queried.                                           *)

HealthTickStep == 10

HealthMaxTime == 60

MaxHealthReqs == 3

\* the body of get_agent_health, from the response of get_agents_overview
AgentHealthResult(status_response) ==
    LET summary == status_response.summary
    IN  [success |-> TRUE,
         health |-> [system_status |-> IF summary.active_agents > 0 THEN "healthy"
                                       ELSE "idle",
                     health_score |-> IF summary.active_agents > 0 THEN 100 ELSE 50,
                     total_agents |-> summary.total_agents,
                     active_agents |-> summary.active_agents,
                     idle_agents |-> summary.idle_agents,
                     offline_agents |-> summary.offline_agents,
                     average_success_rate |-> 100]]

\* the decorated get_agents_overview(cosmos=cosmos): the response, the Redis
\* server afterwards, and the time and state of the database its agent data
\* was queried from (src is the annotation of the entries, which follows
\* every successful write)
overview_cached(r, src, t, d, failing, up) ==
    LET computed == AsyncAgentsOverviewResult(d, failing)
        w == async_cached(AgentsOverviewKey, AgentsOverviewTtl, TRUE, up, FALSE, FALSE,
                          FALSE, computed.data, r, t)
        from == IF w.execs = 0 THEN src[AgentsOverviewKey] ELSE [at |-> t, db |-> d]
    IN  [data |-> w.ret.val, hit |-> w.execs = 0, redis |-> w.redis, from |-> from,
         src |-> IF w.execs = 1 /\ up THEN [src EXCEPT ![AgentsOverviewKey] = from]
                 ELSE src]

\* the decorated get_agent_health(cosmos): on a miss the function calls the
\* decorated get_agents_overview and its result is stored for 30 s
health_cached(r, src, t, d, failing, up) ==
    LET outerHit == up /\ RedisLive(r, AgentHealthKey, t)
        inner == overview_cached(r, src, t, d, failing, up)
        w == async_cached(AgentHealthKey, AgentHealthTtl, TRUE, up, FALSE, FALSE, FALSE,
                          AgentHealthResult(inner.data),
                          IF outerHit THEN r ELSE inner.redis, t)
    IN  [data |-> w.ret.val, hit |-> w.execs = 0, redis |-> w.redis,
         from |-> IF w.execs = 0 THEN src[AgentHealthKey] ELSE inner.from,
         src |-> IF w.execs = 0 THEN src
                 ELSE IF up THEN [inner.src EXCEPT ![AgentHealthKey] = inner.from]
                 ELSE inner.src]

\* the containers whose queries fail during one request
HealthFailingSets == {{}, {S_agent_logs}}

NoSource == [at |-> -1, db |-> <<>>]

InitHealth ==
    /\ IdleBesidesHealth
    /\ \E d \in MemDbs :
          hlt = [phase |-> "ready", now |-> 0, db |-> d, reqs |-> 0, redis |-> <<>>,
                 src |-> (AgentsOverviewKey :> NoSource) @@ (AgentHealthKey :> NoSource)]

HealthCanCall == hlt.phase # "none" /\ hlt.reqs < MaxHealthReqs

\* GET /status
GetAgentsOverviewRoute ==
    \E failing \in HealthFailingSets, up \in BOOLEAN :
        LET o == overview_cached(hlt.redis, hlt.src, hlt.now, hlt.db, failing, up)
        IN  /\ HealthCanCall
            /\ hlt' = [phase |-> "called", now |-> hlt.now, db |-> hlt.db,
                       reqs |-> hlt.reqs + 1, redis |-> o.redis,
                       src |-> o.src,
                       last |-> [endpoint |-> "status", at |-> hlt.now, up |-> up,
                                 failing |-> failing, hit |-> o.hit, data |-> o.data,
                                 from |-> o.from]]
            /\ UNCHANGED besidesHealth

\* GET /health
GetAgentHealth ==
    \E failing \in HealthFailingSets, up \in BOOLEAN :
        LET h == health_cached(hlt.redis, hlt.src, hlt.now, hlt.db, failing, up)
        IN  /\ HealthCanCall
            /\ hlt' = [phase |-> "called", now |-> hlt.now, db |-> hlt.db,
                       reqs |-> hlt.reqs + 1, redis |-> h.redis,
                       src |-> h.src,
                       last |-> [endpoint |-> "health", at |-> hlt.now, up |-> up,
                                 failing |-> failing, hit |-> h.hit, data |-> h.data,
                                 from |-> h.from]]
            /\ UNCHANGED besidesHealth

\* other writers change the agent data
HealthDbChange ==
    /\ hlt.phase # "none"
    /\ \E d \in MemDbs \ {hlt.db} : hlt' = [hlt EXCEPT !.db = d]
    /\ UNCHANGED besidesHealth

\* the clock advances
HealthTick ==
    /\ hlt.phase # "none"
    /\ hlt.now + HealthTickStep <= HealthMaxTime
    /\ hlt' = [hlt EXCEPT !.now = hlt.now + HealthTickStep]
    /\ UNCHANGED besidesHealth

NextHealth ==
    \/ GetAgentsOverviewRoute
    \/ GetAgentHealth
    \/ HealthDbChange
    \/ HealthTick

SpecHealth == InitHealth /\ [][NextHealth]_vars

\* C21: every response of the async get_agent_health, served from the cache
\* or computed, derives from agent data that was queried from the database
\* at most 30 seconds before the response is returned.
C21_HealthStaleness ==
    hlt.phase = "called" /\ hlt.last.endpoint = "health" =>
        hlt.last.at - hlt.last.from.at <= AgentHealthTtl

----------------------------------------------------------------------------
(* Failing containers in the graph scan (checked under SpecGraph)          *)

\* the database with the containers whose query fails emptied
Remaining(contents, failing) ==
    [c \in DOMAIN contents |-> IF c \in failing THEN <<>> ELSE contents[c]]

\* the ids of the documents held by the containers in cs
DocIds(contents, cs) == UNION {{d.id : d \in Range(contents[c])} : c \in cs}

\* what the endpoint of the last request returns for the same parameters
\* when the failing containers are empty and no query fails
WithoutFailing ==
    IF gresp.endpoint = "get_graph_nodes"
    THEN get_graph_nodes(gresp.params.node_type, gresp.params.search, gresp.params.limit,
                         Remaining(gdb, gresp.failing), {})
    ELSE get_graph_edges(gresp.params.source_id, gresp.params.target_id,
                         gresp.params.edge_type, gresp.params.limit,
                         Remaining(gdb, gresp.failing), {})

\* C22: container failures are isolated during graph scanning.  When the
\* query against some of the six scanned containers fails, get_graph_nodes
\* and get_graph_edges answer with success = true and with exactly the nodes
\* or edges that the remaining containers give; no node comes from a
\* document held only by a failing container.
C22_FailuresIsolated ==
    gresp.endpoint \in {"get_graph_nodes", "get_graph_edges"} /\ gresp.failing # {} =>
        /\ gresp.out.success
        /\ gresp.out = WithoutFailing
        /\ gresp.endpoint = "get_graph_nodes" =>
              {n.id : n \in Range(gresp.out.nodes)}
                  \subseteq DocIds(gdb, DOMAIN gdb \ gresp.failing)

\* get_graph_nodes is asked for every node while the queries against
\* system_inbox and memory_contexts fail, both holding documents: the
\* answer has the nodes of the other containers and not the memory node
C22_Witness ==
    /\ gresp.endpoint = "get_graph_nodes"
    /\ gresp.failing = {S_system_inbox, S_memory_contexts}
    /\ gresp.params = [node_type |-> None, search |-> None, limit |-> 100]
    /\ gdb[S_system_inbox] # <<>>
    /\ gdb[S_memory_contexts] # <<>>
    /\ gresp.out.success
    /\ gresp.out.count >= 2
    /\ DocIds(gdb, {S_memory_contexts})
          \cap {n.id : n \in Range(gresp.out.nodes)} = {}

====
